---- MODULE Spec2Model ----
(***************************************************************************)
(* Resource lifecycle layer of the laptopers backend: the gin handlers of  *)
(* controllers/ (events, contributions, hubs, reviews, favorites) over a   *)
(* MongoDB document store and the Cloudinary asset host.                   *)
(*                                                                         *)
(* A collection is the sequence of its BSON documents in insertion order   *)
(* (the order Find returns them in).  A BSON document is a function from   *)
(* field names to values; a field that was never written is not in its     *)
(* DOMAIN.  A Go pointer is a sequence of length 0 (nil) or 1.  A nil      *)
(* []string and an empty one are both <<>> except where the code tells     *)
(* them apart (JSON null against []).  created_at, which a create writes   *)
(* beside updated_at and no handler reads again, is left out of the        *)
(* documents, and so are the two timestamps of a review.                   *)
(***************************************************************************)
EXTENDS Integers, Sequences, FiniteSets, TLC

\* routes.go holds the SetupRoutes of two programs over one code base: the
\* contribution tracker (events, contributions) and the hub directory
\* (hubs, reviews, favorites); a deployment runs one of them
Apps == {"tracker", "hubs"}

VARIABLES app, events, contributions, hubs, reviews, favorites,
          now, nextId, nextAsset, last, inflight

vars == <<app, events, contributions, hubs, reviews, favorites,
         now, nextId, nextAsset, last, inflight>>

(* ------------------------------ bounds --------------------------------- *)
\* object ids the store hands out to documents
MaxIds == 2
\* readings of the wall clock
MaxClock == 1
\* assets the asset host accepts
MaxAssets == 2
\* file parts of one create request
MaxFiles == 2
\* file parts of one update request
MaxNewFiles == 1
\* clock readings per second of an HTTP date
TicksPerSecond == 2

(* --------------------------- identities -------------------------------- *)
\* object ids of the accounts the authentication middleware knows
UserOids == {1, 2}

AllOids == 0..(Cardinality(UserOids) + MaxIds)

\* primitive.ObjectID.Hex
Hex(oid) == "h" \o ToString(oid)

\* primitive.ObjectIDFromHex: [ok, id]
ObjectIDFromHex(s) ==
    IF \E n \in AllOids : Hex(n) = s
    THEN [ok |-> TRUE, id |-> CHOOSE n \in AllOids : Hex(n) = s]
    ELSE [ok |-> FALSE, id |-> 0]

\* what the middleware puts in the context, user_id and role: an anonymous
\* request, and the accounts, the last of which is the administrator
Sessions ==
    {[user_id |-> "", role |-> ""]}
    \cup {[user_id |-> Hex(u),
           role |-> IF u = Cardinality(UserOids) THEN "admin" ELSE "user"] :
          u \in UserOids}

Callers == {s.user_id : s \in Sessions}

\* the :id path parameter
IdParams == {"zz"} \cup {Hex(n) : n \in (AllOids \ UserOids) \ {0}}

(* ------------------------------ helpers -------------------------------- *)
Range(s) == {s[i] : i \in 1..Len(s)}

\* the staged image list pushed onto the stored one, not set in its place
SetFieldsPushImages(doc, update) ==
    [k \in (DOMAIN doc) \cup (DOMAIN update) |->
        IF k = "images" /\ k \in DOMAIN doc /\ k \in DOMAIN update
        THEN doc[k] \o update[k]
        ELSE IF k \in DOMAIN update THEN update[k] ELSE doc[k]]

\* bson $set of the staged fields on a stored document: named fields are
\* written whole, all others are left alone
SetFields(doc, update) ==
    [k \in (DOMAIN doc) \cup (DOMAIN update) |->
        IF k \in DOMAIN update THEN update[k] ELSE doc[k]]

\* a document with the fields in drop removed (omitempty on a zero value)
Without(doc, drop) == [k \in (DOMAIN doc) \ drop |-> doc[k]]

\* FindOne by _id: the documents matching
ById(coll, id) == SelectSeq(coll, LAMBDA d : d._id = id)

\* FindOne(...).Decode(&doc): the first of the documents matching
FirstOf(docs) == IF docs = <<>> THEN <<>> ELSE <<docs[1]>>

\* UpdateOne {_id: id} {$set: update}
UpdateOne(coll, id, update) ==
    [i \in 1..Len(coll) |->
        IF coll[i]._id = id /\ \A j \in 1..(i - 1) : coll[j]._id # id
        THEN SetFields(coll[i], update) ELSE coll[i]]

\* DeleteOne {_id: id}
DeleteOne(coll, id) == SelectSeq(coll, LAMBDA d : d._id # id)

(* ------------------------------ freshness ------------------------------ *)
\* no If-None-Match header, no ETag header
NoTag == <<>>

\* utils.GenerateETag(id, updatedAt): a hash of the two, taken collision free
GenerateETag(id, t) == <<id, t>>

\* t.UTC().Format(http.TimeFormat): the date to the second
HTTPDate(t) == <<t \div TicksPerSecond>>

NoHeaders == [etag |-> NoTag, lastmod |-> <<>>]

\* the loop "latest := xs[0]; for x in xs: if x.UpdatedAt.After(latest...)"
RECURSIVE LatestFrom(_, _, _)
LatestFrom(xs, i, latest) ==
    IF i > Len(xs) THEN latest
    ELSE LatestFrom(xs, i + 1,
                    IF xs[i].updated_at > latest.updated_at THEN xs[i] ELSE latest)

\* the first item taken for the freshest, the loop left out
LatestIsFirst(xs) == xs[1]

Latest(xs) == LatestFrom(xs, 1, xs[1])

(* ------------------------------ responses ------------------------------ *)
NoBody == [kind |-> "none", val |-> <<>>]
NullBody == [kind |-> "null", val |-> <<>>]
ErrorBody == [kind |-> "error", val |-> <<>>]
ArrayBody(xs) == [kind |-> "array", val |-> xs]
ObjectBody(x) == [kind |-> "object", val |-> <<x>>]

\* c.JSON(status, body) with what the request did on the way: the store
\* calls, the uploads and the asset deletes, in order
Response(status, error, headers, body, calls, uploads, destroys) ==
    [status |-> status, error |-> error, headers |-> headers, body |-> body,
     calls |-> calls, uploads |-> uploads, destroys |-> destroys]

Fail(status, error, calls, uploads) ==
    Response(status, error, NoHeaders, ErrorBody, calls, uploads, <<>>)

\* a panic in a handler: no answer of the handler is written; gin's Recovery
\* answers 500 in its place
Panic(calls, destroys) ==
    Response(500, "panic", NoHeaders, NoBody, calls, <<>>, destroys)

\* c.JSON(200, slice): a nil slice is written as null
JSONSlice(isNil, xs) == IF isNil /\ xs = <<>> THEN NullBody ELSE ArrayBody(xs)

\* cursor.All(ctx, &out): out is cut to the documents read, a nil out with
\* nothing read stays nil
CursorAllNil(startsNil, docs) == startsNil /\ docs = <<>>

(* ------------------------------- strings ------------------------------- *)
\* s[i:j] of Go: the bytes i+1..j of the TLA+ string
Slice(s, i, j) == IF j <= i THEN "" ELSE SubSeq(s, i + 1, j)

\* strings.Index(s, c) for a one byte c, counted from 1; 0 when c is not in s
RECURSIVE IndexFrom(_, _, _)
IndexFrom(s, c, i) ==
    IF i > Len(s) THEN 0
    ELSE IF SubSeq(s, i, i) = c THEN i
    ELSE IndexFrom(s, c, i + 1)

Index(s, c) == IndexFrom(s, c, 1)

\* strings.LastIndex(s, c) for a one byte c, counted from 1
RECURSIVE LastIndexFrom(_, _, _)
LastIndexFrom(s, c, i) ==
    IF i < 1 THEN 0
    ELSE IF SubSeq(s, i, i) = c THEN i
    ELSE LastIndexFrom(s, c, i - 1)

\* strings.Split(s, sep) for a one byte sep: always one element at least;
\* SplitAt is its step with the first separator at i
RECURSIVE Split(_, _)
RECURSIVE SplitAt(_, _, _)
SplitAt(s, sep, i) ==
    IF i = 0 THEN <<s>>
    ELSE <<Slice(s, 0, i - 1)>> \o Split(Slice(s, i, Len(s)), sep)

Split(s, sep) == SplitAt(s, sep, Index(s, sep))

\* strings.HasPrefix, strings.HasSuffix, strings.TrimSuffix
HasPrefix(s, prefix) ==
    Len(s) >= Len(prefix) /\ Slice(s, 0, Len(prefix)) = prefix

HasSuffix(s, suffix) ==
    Len(s) >= Len(suffix) /\ Slice(s, Len(s) - Len(suffix), Len(s)) = suffix

TrimSuffix(s, suffix) ==
    IF HasSuffix(s, suffix) THEN Slice(s, 0, Len(s) - Len(suffix)) ELSE s

\* path.Ext(p) of a p without a slash: from its last dot, at i, on; "" when
\* it has none
ExtAt(p, i) == IF i = 0 THEN "" ELSE Slice(p, i - 1, Len(p))

Ext(p) == ExtAt(p, LastIndexFrom(p, ".", Len(p)))

\* path.Clean on the elements of a relative path: "" and "." are dropped,
\* ".." takes the element before it away
RECURSIVE CleanElems(_, _)
CleanElems(elems, acc) ==
    IF elems = <<>> THEN acc
    ELSE CleanElems(Tail(elems),
             IF Head(elems) \in {"", "."} THEN acc
             ELSE IF Head(elems) = ".." /\ acc # <<>> /\ acc[Len(acc)] # ".."
             THEN SubSeq(acc, 1, Len(acc) - 1)
             ELSE Append(acc, Head(elems)))

RECURSIVE JoinWith(_, _)
JoinWith(elems, sep) ==
    IF elems = <<>> THEN ""
    ELSE IF Len(elems) = 1 THEN elems[1]
    ELSE elems[1] \o sep \o JoinWith(Tail(elems), sep)

\* path.Join(elems...) of elements without a slash: the non-empty ones
\* joined and cleaned, "" when there is none
JoinCleaned(cleaned) == IF cleaned = <<>> THEN "." ELSE JoinWith(cleaned, "/")

Join(elems) ==
    IF \A i \in 1..Len(elems) : elems[i] = "" THEN ""
    ELSE JoinCleaned(CleanElems(elems, <<>>))

\* url.Parse(rawURL): [ok, path].  The fragment and the query are cut off, a
\* scheme is what stands before a colon that precedes every slash, a colon
\* in front is an error, "//" opens the host, which ends at the next slash,
\* and a scheme not followed by a slash makes the URL opaque.  The URLs of
\* the model have no escapes and no control bytes.
CutAt(t, i) == IF i = 0 THEN t ELSE Slice(t, 0, i - 1)

Cut(t, c) == CutAt(t, Index(t, c))

\* the path of what follows "//": from the slash at i on
PathAfterHost(authority, i) ==
    IF i = 0 THEN "" ELSE Slice(authority, i - 1, Len(authority))

\* rest: the URL behind its scheme
ParseRest(rest, hasScheme) ==
    IF HasPrefix(rest, "//")
    THEN [ok |-> TRUE,
          path |-> PathAfterHost(Slice(rest, 2, Len(rest)),
                                 Index(Slice(rest, 2, Len(rest)), "/"))]
    ELSE IF hasScheme /\ ~HasPrefix(rest, "/") THEN [ok |-> TRUE, path |-> ""]
    ELSE [ok |-> TRUE, path |-> rest]

\* getScheme with the first colon and the first slash of u
ParseScheme(u, colon, slash) ==
    IF colon = 1 THEN [ok |-> FALSE, path |-> ""]
    ELSE IF colon > 1 /\ (slash = 0 \/ colon < slash)
    THEN ParseRest(Slice(u, colon, Len(u)), TRUE)
    ELSE ParseRest(u, FALSE)

ParseCut(u) == ParseScheme(u, Index(u, ":"), Index(u, "/"))

Parse(rawURL) == ParseCut(Cut(Cut(rawURL, "#"), "?"))

(* ------------------------------ asset host ----------------------------- *)
\* the SecureURL of the n-th upload: UploadToCloudinary puts every file in
\* the folder "events"
AssetURL(n) ==
    "https://res.cloudinary.com/demo/image/upload/v" \o ToString(n)
        \o "/events/img" \o ToString(n) \o ".jpg"

\* extractPublicID(imageURL): [panic, id, err].
\* "Remove version part": the part before the last is dropped when it
\* begins with "v"
RemoveVersion(parts) ==
    IF HasPrefix(parts[Len(parts) - 1], "v")
    THEN Append(SubSeq(parts, 1, Len(parts) - 2), parts[Len(parts)])
    ELSE parts

\* the last statement, on the parts that are left: parts[3:] of a slice of
\* length 2 is out of range
PublicIDFrom(parts) ==
    IF Len(parts) < 3 THEN [panic |-> TRUE, id |-> "", err |-> ""]
    ELSE [panic |-> FALSE,
          id |-> TrimSuffix(Join(SubSeq(parts, 4, Len(parts))), Ext(parts[Len(parts)])),
          err |-> ""]

ExtractFromParts(parts) ==
    IF Len(parts) < 3
    THEN [panic |-> FALSE, id |-> "", err |-> "invalid cloudinary URL format"]
    ELSE PublicIDFrom(RemoveVersion(parts))

ExtractFromURL(parsedURL) ==
    IF ~parsedURL.ok THEN [panic |-> FALSE, id |-> "", err |-> "parse"]
    ELSE ExtractFromParts(Split(parsedURL.path, "/"))

extractPublicID(imageURL) == ExtractFromURL(Parse(imageURL))

\* a URL of the client's own making in the images field of an update
ClientURLs == {"https://cdn.example.com/v1/a.jpg"}

\* the URLs a document can hold, and extractPublicID on each of them, worked
\* out once
StorableURLs == {AssetURL(n) : n \in 1..MaxAssets} \cup ClientURLs

PublicIDs == [u \in StorableURLs |-> extractPublicID(u)]

\* DeleteFromCloudinary(imageURL), fails: the asset host refuses the destroy.
\* [url, panic, destroy, public_id, err]: destroy tells that the destroy call
\* was made, public_id with what
DestroyWith(imageURL, x, fails) ==
    [url |-> imageURL, panic |-> x.panic,
     destroy |-> ~x.panic /\ x.err = "",
     public_id |-> x.id,
     err |-> IF x.panic THEN ""
             ELSE IF x.err # "" THEN "could not extract public ID"
             ELSE IF fails THEN "delete error" ELSE ""]

DeleteFromCloudinary(imageURL, fails) ==
    DestroyWith(imageURL, PublicIDs[imageURL], fails)

\* the loop "for _, img := range existing.Images { DeleteFromCloudinary(img) }"
\* with the destroys of the images in fails refused: one entry per call made,
\* the last one a call that panicked if one did
DestroyAll(images, fails) ==
    LET panics == {i \in 1..Len(images) : PublicIDs[images[i]].panic}
        made == IF panics = {} THEN Len(images)
                ELSE CHOOSE i \in panics : \A j \in panics : i <= j
    IN  [i \in 1..made |-> DeleteFromCloudinary(images[i], i \in fails)]

\* the calls a delete handler has made when it is through DestroyAll
DestroyCalls(log) == [i \in 1..Len(log) |-> "DeleteFromCloudinary"]

Panicked(log) == log # <<>> /\ log[Len(log)].panic

\* the loop going on to the next file after a failed upload
UploadAllKeepGoing(n, failAt, first) ==
    LET done == IF failAt = 0 THEN n ELSE failAt - 1
        urls == [i \in 1..done |-> AssetURL(first + i)]
    IN [ok   |-> failAt = 0,
        urls |-> urls,
        log  |-> [i \in 1..n |-> IF i = failAt THEN "failed"
                                 ELSE AssetURL(first + IF failAt # 0 /\ i > failAt
                                                       THEN i - 1 ELSE i)]]

\* the uploads of one request: n files, the failAt-th fails (0: none).
\* [ok, urls, log]: log has one entry per upload call made
UploadAll(n, failAt, first) ==
    LET done == IF failAt = 0 THEN n ELSE failAt - 1
        urls == [i \in 1..done |-> AssetURL(first + i)]
    IN [ok   |-> failAt = 0,
        urls |-> urls,
        log  |-> IF failAt = 0 THEN urls ELSE Append(urls, "failed")]

(* ------------------------------- events -------------------------------- *)
\* models.Event as InsertOne writes it: omitempty drops the zero values
MarshalEvent(e) ==
    LET doc == [_id |-> e._id, user_id |-> e.user_id, title |-> e.title,
                description |-> e.description, location |-> e.location,
                target_amount |-> e.target_amount,
                deadline |-> IF e.deadline = <<>> THEN 0 ELSE e.deadline[1],
                status |-> e.status, images |-> e.images,
                updated_at |-> e.updated_at]
    IN Without(doc, {k \in {"description", "location"} : doc[k] = ""}
                    \cup (IF e.target_amount = 0 THEN {"target_amount"} ELSE {})
                    \cup (IF e.deadline = <<>> THEN {"deadline"} ELSE {}))

\* Decode(&event): a field the document lacks keeps its zero value
DecodeEvent(doc) ==
    LET str(k) == IF k \in DOMAIN doc THEN doc[k] ELSE ""
        num(k) == IF k \in DOMAIN doc THEN doc[k] ELSE 0
    IN [_id |-> doc._id, user_id |-> num("user_id"), title |-> str("title"),
        description |-> str("description"), location |-> str("location"),
        target_amount |-> num("target_amount"),
        deadline |-> IF "deadline" \in DOMAIN doc THEN <<doc.deadline>> ELSE <<>>,
        status |-> str("status"),
        images |-> IF "images" \in DOMAIN doc THEN doc.images ELSE <<>>,
        updated_at |-> num("updated_at")]

\* cursor.All(ctx, &events)
DecodeEvents(docs) == [i \in 1..Len(docs) |-> DecodeEvent(docs[i])]

\* time.Parse(time.RFC3339, s), then the layouts 2006-01-02, 2006-01-02 15:04
\* and 2006-01-02 15:04:05: [ok, t]
ParseDeadline(s) ==
    CASE s = "2030-01-01T00:00:00Z" -> [ok |-> TRUE, t |-> 100]
      [] s = "2030-01-01"           -> [ok |-> TRUE, t |-> 100]
      [] s = "2030-01-01 00:00"     -> [ok |-> TRUE, t |-> 100]
      [] OTHER                      -> [ok |-> FALSE, t |-> 0]

\* {"$regex": q, "$options": "i"} on a title; the titles and patterns of the
\* model are single letters
LowerOf(s) == CASE s = "A" -> "a" [] s = "B" -> "b" [] OTHER -> s
RegexMatchI(q, title) == LowerOf(q) = LowerOf(title)

\* the fields of a multipart form an event handler binds
BlankEventForm ==
    [title |-> "", description |-> "", location |-> "", target_amount |-> 0,
     deadline |-> <<>>, status |-> "", images |-> <<>>]

HasDeadline(form) == form.deadline # <<>> /\ form.deadline[1] # ""

\* the permission check without the administrator's bypass
AccessDeniedOwnerOnly(role, owner, requesterID) == Hex(owner) # requesterID

\* role != "admin" && existing.UserID.Hex() != requesterID
AccessDenied(role, owner, requesterID) ==
    role # "admin" /\ Hex(owner) # requesterID

\* the image list staged on every update
ImagesAlwaysStaged(retained, newURLs) == TRUE

\* input.Images != nil || len(newImageURLs) > 0
ImagesSupplied(retained, newURLs) == retained # <<>> \/ Len(newURLs) > 0

\* the new URLs put in front of the kept ones
MergeImagesNewFirst(retained, newURLs) == newURLs \o retained

\* append(input.Images, newImageURLs...)
MergeImages(retained, newURLs) == retained \o newURLs

\* the update document UpdateEvent stages from a bound form
StageEvent(form, newURLs, t) ==
    LET field(k, on, v) == IF on THEN {<<k, v>>} ELSE {}
        staged == field("updated_at", TRUE, <<t>>)
                  \cup field("title", form.title # "", <<form.title>>)
                  \cup field("description", form.description # "", <<form.description>>)
                  \cup field("location", form.location # "", <<form.location>>)
                  \cup field("target_amount", form.target_amount > 0, <<form.target_amount>>)
                  \cup field("status", form.status # "", <<form.status>>)
                  \cup field("deadline", HasDeadline(form),
                             <<ParseDeadline(IF HasDeadline(form) THEN form.deadline[1] ELSE "").t>>)
                  \cup field("images", ImagesSupplied(form.images, newURLs),
                             <<MergeImages(form.images, newURLs)>>)
    IN [k \in {p[1] : p \in staged} |-> (CHOOSE p \in staged : p[1] = k)[2][1]]

\* the check against an update document with no entry at all
NothingStagedAtAll(update) == Cardinality(DOMAIN update) = 0

\* len(update) == 1: only updated_at is staged
NothingStaged(update) == Cardinality(DOMAIN update) = 1

\* what a handler returns: the response and the collection it leaves
Out(resp, coll) == [resp |-> resp, coll |-> coll]

CreateEventHandler(caller, form, nfiles, failAt) ==
    LET uid == ObjectIDFromHex(caller)
        parsed == ParseDeadline(IF HasDeadline(form) THEN form.deadline[1] ELSE "")
        up == UploadAll(nfiles, failAt, nextAsset)
        event == [_id |-> nextId, user_id |-> uid.id, title |-> form.title,
                  description |-> form.description, location |-> form.location,
                  target_amount |-> form.target_amount,
                  deadline |-> IF HasDeadline(form) THEN <<parsed.t>> ELSE <<>>,
                  status |-> "ACTIVE", images |-> up.urls, updated_at |-> now]
    IN  IF ~uid.ok THEN Out(Fail(401, "invalid user id", <<>>, <<>>), events)
        ELSE IF form.title = "" THEN Out(Fail(400, "binding", <<>>, <<>>), events)
        ELSE IF HasDeadline(form) /\ ~parsed.ok
        THEN Out(Fail(400, "invalid deadline format", <<>>, <<>>), events)
        ELSE IF ~up.ok THEN Out(Fail(500, "image upload failed", <<>>, up.log), events)
        ELSE Out(Response(201, "", NoHeaders, ObjectBody(event),
                          <<"InsertOne">>, up.log, <<>>),
                 Append(events, MarshalEvent(event)))

\* the conditional answer with the date header set whatever the endpoint
ConditionalDated(latest, inm, withDate, body, calls) ==
    LET etag == GenerateETag(latest._id, latest.updated_at)
    IN  IF inm # NoTag /\ inm = etag
        THEN Response(304, "", NoHeaders, NoBody, calls, <<>>, <<>>)
        ELSE Response(200, "",
                      [etag |-> etag, lastmod |-> HTTPDate(latest.updated_at)],
                      body, calls, <<>>, <<>>)

\* the conditional answer of a read endpoint on the freshest item
Conditional(latest, inm, withDate, body, calls) ==
    LET etag == GenerateETag(latest._id, latest.updated_at)
    IN  IF inm # NoTag /\ inm = etag
        THEN Response(304, "", NoHeaders, NoBody, calls, <<>>, <<>>)
        ELSE Response(200, "",
                      [etag |-> etag,
                       lastmod |-> IF withDate THEN HTTPDate(latest.updated_at) ELSE <<>>],
                      body, calls, <<>>, <<>>)

\* ListEvents on the events collection coll
ListEventsOn(coll, caller, q, inm) ==
    LET uid == ObjectIDFromHex(caller)
        found == SelectSeq(coll, LAMBDA d :
                     d.user_id = uid.id /\ (q = "" \/ RegexMatchI(q, d.title)))
        list == DecodeEvents(found)
    IN  IF ~uid.ok THEN Fail(401, "invalid user id", <<>>, <<>>)
        ELSE IF Len(list) = 0
        THEN Response(200, "", NoHeaders, ArrayBody(<<>>), <<"Find">>, <<>>, <<>>)
        ELSE Conditional(Latest(list), inm, TRUE, ArrayBody(list), <<"Find">>)

ListEventsHandler(caller, q, inm) == ListEventsOn(events, caller, q, inm)

\* the event looked up by its id alone
GetEventAnyOwner(caller, id, inm) ==
    LET uid == ObjectIDFromHex(caller)
        eid == ObjectIDFromHex(id)
        found == SelectSeq(events, LAMBDA d : d._id = eid.id)
    IN  IF ~uid.ok THEN Fail(401, "invalid user id", <<>>, <<>>)
        ELSE IF ~eid.ok THEN Fail(400, "invalid event id", <<>>, <<>>)
        ELSE IF found = <<>> THEN Fail(404, "event not found or not owned", <<"FindOne">>, <<>>)
        ELSE Conditional(DecodeEvent(found[1]), inm, FALSE,
                         ObjectBody(DecodeEvent(found[1])), <<"FindOne">>)

GetEventHandler(caller, id, inm) ==
    LET uid == ObjectIDFromHex(caller)
        eid == ObjectIDFromHex(id)
        found == SelectSeq(events, LAMBDA d : d._id = eid.id /\ d.user_id = uid.id)
    IN  IF ~uid.ok THEN Fail(401, "invalid user id", <<>>, <<>>)
        ELSE IF ~eid.ok THEN Fail(400, "invalid event id", <<>>, <<>>)
        ELSE IF found = <<>> THEN Fail(404, "event not found or not owned", <<"FindOne">>, <<>>)
        ELSE Conditional(DecodeEvent(found[1]), inm, FALSE,
                         ObjectBody(DecodeEvent(found[1])), <<"FindOne">>)

\* the update with the files uploaded before the deadline is parsed
UpdateEventUploadFirst(caller, role, id, form, nfiles, failAt) ==
    LET oid == ObjectIDFromHex(id)
        found == ById(events, oid.id)
        parsed == ParseDeadline(IF HasDeadline(form) THEN form.deadline[1] ELSE "")
        up == UploadAll(nfiles, failAt, nextAsset)
        update == StageEvent(form, up.urls, now)
        written == UpdateOne(events, oid.id, update)
        again == ById(written, oid.id)
    IN  IF caller = "" THEN Out(Fail(401, "unauthorized", <<>>, <<>>), events)
        ELSE IF ~oid.ok THEN Out(Fail(400, "Invalid event ID", <<>>, <<>>), events)
        ELSE IF found = <<>> THEN Out(Fail(404, "Event not found", <<"FindOne">>, <<>>), events)
        ELSE IF AccessDenied(role, DecodeEvent(found[1]).user_id, caller)
        THEN Out(Fail(403, "Access denied", <<"FindOne">>, <<>>), events)
        ELSE IF ~up.ok
        THEN Out(Fail(500, "image upload failed", <<"FindOne">>, up.log), events)
        ELSE IF HasDeadline(form) /\ ~parsed.ok
        THEN Out(Fail(400, "invalid deadline format", <<"FindOne">>, up.log), events)
        ELSE IF NothingStaged(update)
        THEN Out(Fail(400, "no fields to update", <<"FindOne">>, up.log), events)
        ELSE Out(Response(200, "", NoHeaders, ObjectBody(DecodeEvent(again[1])),
                          <<"FindOne", "UpdateOne", "FindOne">>, up.log, <<>>),
                 written)

UpdateEventHandler(caller, role, id, form, nfiles, failAt) ==
    LET oid == ObjectIDFromHex(id)
        found == ById(events, oid.id)
        parsed == ParseDeadline(IF HasDeadline(form) THEN form.deadline[1] ELSE "")
        up == UploadAll(nfiles, failAt, nextAsset)
        update == StageEvent(form, up.urls, now)
        written == UpdateOne(events, oid.id, update)
        again == ById(written, oid.id)
    IN  IF caller = "" THEN Out(Fail(401, "unauthorized", <<>>, <<>>), events)
        ELSE IF ~oid.ok THEN Out(Fail(400, "Invalid event ID", <<>>, <<>>), events)
        ELSE IF found = <<>> THEN Out(Fail(404, "Event not found", <<"FindOne">>, <<>>), events)
        ELSE IF AccessDenied(role, DecodeEvent(found[1]).user_id, caller)
        THEN Out(Fail(403, "Access denied", <<"FindOne">>, <<>>), events)
        ELSE IF HasDeadline(form) /\ ~parsed.ok
        THEN Out(Fail(400, "invalid deadline format", <<"FindOne">>, <<>>), events)
        ELSE IF ~up.ok
        THEN Out(Fail(500, "image upload failed", <<"FindOne">>, up.log), events)
        ELSE IF NothingStaged(update)
        THEN Out(Fail(400, "no fields to update", <<"FindOne">>, up.log), events)
        ELSE Out(Response(200, "", NoHeaders, ObjectBody(DecodeEvent(again[1])),
                          <<"FindOne", "UpdateOne", "FindOne">>, up.log, <<>>),
                 written)

\* destroys: one utils.DeleteFromCloudinary call per stored image, its error
\* dropped.  The calls of a delete that got to DeleteOne list the asset
\* deletes and the write of the answer ("JSON") with the store calls, in the
\* order made
DeleteEventHandler(caller, role, id, fails) ==
    LET oid == ObjectIDFromHex(id)
        found == ById(events, oid.id)
        existing == DecodeEvent(found[1])
        log == DestroyAll(existing.images, fails)
    IN  IF caller = "" THEN Out(Fail(401, "unauthorized", <<>>, <<>>), events)
        ELSE IF ~oid.ok THEN Out(Fail(400, "invalid event id", <<>>, <<>>), events)
        ELSE IF found = <<>> THEN Out(Fail(404, "event not found", <<"FindOne">>, <<>>), events)
        ELSE IF AccessDenied(role, existing.user_id, caller)
        THEN Out(Fail(403, "access denied", <<"FindOne">>, <<>>), events)
        ELSE IF Panicked(log)
        THEN Out(Panic(<<"FindOne", "DeleteOne">> \o DestroyCalls(log), log),
                 DeleteOne(events, oid.id))
        ELSE Out(Response(200, "", NoHeaders, ObjectBody([id |-> Hex(oid.id)]),
                          <<"FindOne", "DeleteOne">> \o DestroyCalls(log) \o <<"JSON">>,
                          <<>>, log),
                 DeleteOne(events, oid.id))


(* ---------------------------- contributions ---------------------------- *)
\* models.Contribution as InsertOne writes it
MarshalContribution(c) ==
    LET doc == [_id |-> c._id, event_id |-> c.event_id,
                contributor_name |-> c.contributor_name,
                contributor_contact |-> c.contributor_contact,
                amount |-> c.amount, currency |-> c.currency, method |-> c.method,
                payment_reference |-> c.payment_reference, status |-> c.status,
                receipt_url |-> c.receipt_url, updated_at |-> c.updated_at]
    IN Without(doc, {k \in {"contributor_contact", "payment_reference", "receipt_url"} :
                        doc[k] = ""})

DecodeContribution(doc) ==
    LET str(k) == IF k \in DOMAIN doc THEN doc[k] ELSE ""
        num(k) == IF k \in DOMAIN doc THEN doc[k] ELSE 0
    IN [_id |-> doc._id, event_id |-> num("event_id"),
        contributor_name |-> str("contributor_name"),
        contributor_contact |-> str("contributor_contact"),
        amount |-> num("amount"), currency |-> str("currency"),
        method |-> str("method"), payment_reference |-> str("payment_reference"),
        status |-> str("status"), receipt_url |-> str("receipt_url"),
        updated_at |-> num("updated_at")]

\* cursor.All(ctx, &contributions)
DecodeContributions(docs) == [i \in 1..Len(docs) |-> DecodeContribution(docs[i])]

\* a JSON body bound to models.Contribution; event_id is the hex string of the
\* body ("" when the key is absent), malformed a body that is no JSON object
BlankContribution ==
    [malformed |-> FALSE, event_id |-> "", contributor_name |-> "",
     contributor_contact |-> "", amount |-> 0, currency |-> "", method |-> "",
     payment_reference |-> "", status |-> "", receipt_url |-> ""]

\* ShouldBindJSON: [ok, event_id]
BindContribution(body) ==
    LET oid == ObjectIDFromHex(body.event_id)
    IN  [ok |-> ~body.malformed /\ (body.event_id = "" \/ oid.ok),
         event_id |-> IF body.event_id = "" THEN 0 ELSE oid.id]

\* the update document with every amount the body carries staged
StageContributionAnyAmount(body, t) ==
    LET field(k, on, v) == IF on THEN {<<k, v>>} ELSE {}
        staged == field("updated_at", TRUE, <<t>>)
                  \cup field("contributor_name", body.contributor_name # "",
                             <<body.contributor_name>>)
                  \cup field("contributor_contact", body.contributor_contact # "",
                             <<body.contributor_contact>>)
                  \cup field("amount", body.amount # 0, <<body.amount>>)
                  \cup field("currency", body.currency # "", <<body.currency>>)
                  \cup field("method", body.method # "", <<body.method>>)
                  \cup field("payment_reference", body.payment_reference # "",
                             <<body.payment_reference>>)
                  \cup field("status", body.status # "", <<body.status>>)
                  \cup field("receipt_url", body.receipt_url # "", <<body.receipt_url>>)
    IN [k \in {p[1] : p \in staged} |-> (CHOOSE p \in staged : p[1] = k)[2][1]]

\* the update document UpdateContribution stages from a bound body
StageContribution(body, t) ==
    LET field(k, on, v) == IF on THEN {<<k, v>>} ELSE {}
        staged == field("updated_at", TRUE, <<t>>)
                  \cup field("contributor_name", body.contributor_name # "",
                             <<body.contributor_name>>)
                  \cup field("contributor_contact", body.contributor_contact # "",
                             <<body.contributor_contact>>)
                  \cup field("amount", body.amount > 0, <<body.amount>>)
                  \cup field("currency", body.currency # "", <<body.currency>>)
                  \cup field("method", body.method # "", <<body.method>>)
                  \cup field("payment_reference", body.payment_reference # "",
                             <<body.payment_reference>>)
                  \cup field("status", body.status # "", <<body.status>>)
                  \cup field("receipt_url", body.receipt_url # "", <<body.receipt_url>>)
    IN [k \in {p[1] : p \in staged} |-> (CHOOSE p \in staged : p[1] = k)[2][1]]

\* the amount check that lets everything through
AmountNeverRefused(amount) == FALSE

\* input.Amount <= 0
AmountRefused(amount) == amount <= 0

\* the models.Contribution CreateContribution builds from its input
NewContribution(body) ==
    [_id |-> nextId, event_id |-> BindContribution(body).event_id,
     contributor_name |-> body.contributor_name,
     contributor_contact |-> body.contributor_contact,
     amount |-> body.amount, currency |-> body.currency,
     method |-> body.method, payment_reference |-> body.payment_reference,
     status |-> "PENDING", receipt_url |-> body.receipt_url,
     updated_at |-> now]

CreateContributionHandler(body) ==
    LET input == BindContribution(body)
        contribution == NewContribution(body)
    IN  IF ~input.ok THEN Out(Fail(400, "binding", <<>>, <<>>), contributions)
        ELSE IF input.event_id = 0
        THEN Out(Fail(400, "event_id is required", <<>>, <<>>), contributions)
        ELSE IF ById(events, input.event_id) = <<>>
        THEN Out(Fail(400, "event not found", <<"FindOne">>, <<>>), contributions)
        ELSE IF AmountRefused(body.amount)
        THEN Out(Fail(400, "amount must be greater than 0", <<"FindOne">>, <<>>),
                 contributions)
        ELSE Out(Response(201, "", NoHeaders, ObjectBody([id |-> Hex(nextId)]),
                          <<"FindOne", "InsertOne">>, <<>>, <<>>),
                 Append(contributions, MarshalContribution(contribution)))

\* eventq, statusq: the event_id and status query parameters
\* ListContributions on the contributions collection coll
ListContributionsOn(coll, eventq, statusq, inm) ==
    LET oid == ObjectIDFromHex(eventq)
        found == SelectSeq(coll, LAMBDA d :
                     /\ (eventq # "" /\ oid.ok) => d.event_id = oid.id
                     /\ statusq # "" => d.status = statusq)
        list == DecodeContributions(found)
    IN  IF Len(list) = 0
        THEN Response(200, "", NoHeaders, ArrayBody(<<>>), <<"Find">>, <<>>, <<>>)
        ELSE Conditional(Latest(list), inm, TRUE, ArrayBody(list), <<"Find">>)

ListContributionsHandler(eventq, statusq, inm) ==
    ListContributionsOn(contributions, eventq, statusq, inm)

GetContributionHandler(id, inm) ==
    LET oid == ObjectIDFromHex(id)
        found == ById(contributions, oid.id)
    IN  IF ~oid.ok THEN Fail(400, "invalid contribution id", <<>>, <<>>)
        ELSE IF found = <<>> THEN Fail(404, "contribution not found", <<"FindOne">>, <<>>)
        ELSE Conditional(DecodeContribution(found[1]), inm, FALSE,
                         ObjectBody(DecodeContribution(found[1])), <<"FindOne">>)

UpdateContributionHandler(id, body) ==
    LET oid == ObjectIDFromHex(id)
        input == BindContribution(body)
        update == StageContribution(body, now)
    IN  IF ~oid.ok THEN Out(Fail(400, "invalid contribution id", <<>>, <<>>), contributions)
        ELSE IF ~input.ok THEN Out(Fail(400, "binding", <<>>, <<>>), contributions)
        ELSE IF NothingStaged(update)
        THEN Out(Fail(400, "no fields to update", <<>>, <<>>), contributions)
        ELSE IF ById(contributions, oid.id) = <<>>
        THEN Out(Fail(404, "contribution not found", <<"UpdateOne">>, <<>>), contributions)
        ELSE Out(Response(200, "", NoHeaders, ObjectBody([id |-> Hex(oid.id)]),
                          <<"UpdateOne">>, <<>>, <<>>),
                 UpdateOne(contributions, oid.id, update))

\* the delete answered with success whatever the deleted count
DeleteContributionUnchecked(id) ==
    LET oid == ObjectIDFromHex(id)
    IN  IF ~oid.ok THEN Out(Fail(400, "invalid contribution id", <<>>, <<>>), contributions)
        ELSE Out(Response(200, "", NoHeaders, ObjectBody([id |-> Hex(oid.id)]),
                          <<"DeleteOne">>, <<>>, <<>>),
                 DeleteOne(contributions, oid.id))

DeleteContributionHandler(id) ==
    LET oid == ObjectIDFromHex(id)
    IN  IF ~oid.ok THEN Out(Fail(400, "invalid contribution id", <<>>, <<>>), contributions)
        ELSE IF ById(contributions, oid.id) = <<>>
        THEN Out(Fail(404, "contribution not found", <<"DeleteOne">>, <<>>), contributions)
        ELSE Out(Response(200, "", NoHeaders, ObjectBody([id |-> Hex(oid.id)]),
                          <<"DeleteOne">>, <<>>, <<>>),
                 DeleteOne(contributions, oid.id))


(* -------------------------------- hubs --------------------------------- *)
\* the users collection, which no handler of this layer writes: _id to name.
\* The document of the last account is gone from it, its token still valid
Users == [u \in UserOids \ {Cardinality(UserOids)} |-> "u" \o ToString(u)]

\* the lookup that leaves the name empty on an error
UserNameOrEmpty(id, fallback) == IF id \in DOMAIN Users THEN Users[id] ELSE ""

\* userCol.FindOne({_id: id}).Decode(&user), fallback on an error
UserName(id, fallback) == IF id \in DOMAIN Users THEN Users[id] ELSE fallback

\* models.Hub as InsertOne writes it, under the bson names of its tags; the
\* embedded Coordinates is always written, omitempty drops the zero values
MarshalHub(h) ==
    LET doc == [_id |-> h._id, user_id |-> h.user_id, title |-> h.title,
                description |-> h.description,
                coordinates |-> [lat |-> h.coordinates.lat, lng |-> h.coordinates.lng],
                location |-> h.location_name, target_amount |-> h.rating,
                images |-> h.images, updated_at |-> h.updated_at]
    IN Without(doc, {k \in {"description", "location"} : doc[k] = ""}
                    \cup (IF h.rating = 0 THEN {"target_amount"} ELSE {}))

\* Decode(&hub): the fields are read under the bson names of the tags, a
\* field or an axis the document lacks keeps its zero value
DecodeHub(doc) ==
    LET str(k) == IF k \in DOMAIN doc THEN doc[k] ELSE ""
        num(k) == IF k \in DOMAIN doc THEN doc[k] ELSE 0
        axis(k) == IF "coordinates" \in DOMAIN doc /\ k \in DOMAIN doc.coordinates
                   THEN doc.coordinates[k] ELSE 0
    IN [_id |-> doc._id, user_id |-> num("user_id"), title |-> str("title"),
        description |-> str("description"),
        coordinates |-> [lat |-> axis("lat"), lng |-> axis("lng")],
        location_name |-> str("location"), rating |-> num("target_amount"),
        images |-> IF "images" \in DOMAIN doc THEN doc.images ELSE <<>>,
        updated_at |-> num("updated_at"),
        is_favorite |-> FALSE, reviews |-> <<>>]

\* cursor.All(ctx, &hubs)
DecodeHubs(docs) == [i \in 1..Len(docs) |-> DecodeHub(docs[i])]

\* the fields of a multipart form a hub handler binds; lat and lng are the
\* *float64 of UpdateHub
BlankHubForm ==
    [title |-> "", description |-> "", lat |-> <<>>, lng |-> <<>>,
     location_name |-> "", rating |-> 0, images |-> <<>>]

\* a float64 form field: zero when the key is absent
FloatOf(ptr) == IF ptr = <<>> THEN 0 ELSE ptr[1]

\* coordinatesUpdate: the axes the form carries
CoordinatesUpdate(form) ==
    LET axes == (IF form.lat # <<>> THEN {"lat"} ELSE {})
                \cup (IF form.lng # <<>> THEN {"lng"} ELSE {})
    IN [k \in axes |-> IF k = "lat" THEN form.lat[1] ELSE form.lng[1]]

\* the update document UpdateHub stages from a bound form
StageHub(form, newURLs, t) ==
    LET field(k, on, v) == IF on THEN {<<k, v>>} ELSE {}
        staged == field("updated_at", TRUE, <<t>>)
                  \cup field("title", form.title # "", <<form.title>>)
                  \cup field("description", form.description # "", <<form.description>>)
                  \cup field("location_name", form.location_name # "",
                             <<form.location_name>>)
                  \cup field("rating", form.rating > 0, <<form.rating>>)
                  \cup field("coordinates", DOMAIN CoordinatesUpdate(form) # {},
                             <<CoordinatesUpdate(form)>>)
                  \cup field("images", ImagesSupplied(form.images, newURLs),
                             <<MergeImages(form.images, newURLs)>>)
    IN [k \in {p[1] : p \in staged} |-> (CHOOSE p \in staged : p[1] = k)[2][1]]

CreateHubHandler(caller, form, nfiles, failAt) ==
    LET uid == ObjectIDFromHex(caller)
        up == UploadAll(nfiles, failAt, nextAsset)
        hub == [_id |-> nextId, user_id |-> uid.id, title |-> form.title,
                description |-> form.description,
                coordinates |-> [lat |-> FloatOf(form.lat), lng |-> FloatOf(form.lng)],
                location_name |-> form.location_name, rating |-> form.rating,
                images |-> up.urls, updated_at |-> now,
                is_favorite |-> FALSE, reviews |-> <<>>]
    IN  IF ~uid.ok THEN Out(Fail(401, "invalid user id", <<>>, <<>>), hubs)
        ELSE IF form.title = "" THEN Out(Fail(400, "binding", <<>>, <<>>), hubs)
        ELSE IF ~up.ok THEN Out(Fail(500, "image upload failed", <<>>, up.log), hubs)
        ELSE Out(Response(201, "", NoHeaders, ObjectBody(hub),
                          <<"InsertOne">>, up.log, <<>>),
                 Append(hubs, MarshalHub(hub)))

\* reviewCol.Find({hub_id: id})
ReviewsOf(id) == SelectSeq(reviews, LAMBDA r : r.hub_id = id)

\* the lookup by hub alone
FavoriteOfAnyone(u, h) == SelectSeq(favorites, LAMBDA f : f.hub_id = h)

\* favCol.FindOne({user_id: u, hub_id: h})
FavoriteOf(u, h) == SelectSeq(favorites, LAMBDA f : f.user_id = u /\ f.hub_id = h)

\* models.ReviewResponse of ListHubs
EnrichReview(r) ==
    [id |-> r._id, user_id |-> r.user_id, user_name |-> UserName(r.user_id, "Unknown"),
     hub_id |-> r.hub_id, rating |-> r.rating,
     comment |-> IF "comment" \in DOMAIN r THEN r.comment ELSE ""]

\* the loop of ListHubs over the reviews of one hub
EnrichReviews(revs) == [i \in 1..Len(revs) |-> EnrichReview(revs[i])]

\* the body of the loop of ListHubs over the decoded hubs
EnrichHub(hub, userID) ==
    [hub EXCEPT !.reviews = EnrichReviews(ReviewsOf(hub._id)),
                !.is_favorite = FavoriteOf(userID, hub._id) # <<>>]

\* the store calls of that loop for one hub
RECURSIVE EnrichCalls(_)
EnrichCalls(list) ==
    IF list = <<>> THEN <<>>
    ELSE <<"Find">> \o [i \in 1..Len(ReviewsOf(list[1]._id)) |-> "FindOne"]
         \o <<"FindOne">> \o EnrichCalls(Tail(list))

ListHubsHandler(caller, q, inm) ==
    LET uid == ObjectIDFromHex(caller)
        found == SelectSeq(hubs, LAMBDA d : q = "" \/ RegexMatchI(q, d.title))
        list == DecodeHubs(found)
        enriched == [i \in 1..Len(list) |-> EnrichHub(list[i], uid.id)]
    IN  IF ~uid.ok THEN Fail(401, "invalid user id", <<>>, <<>>)
        ELSE Response(200, "", NoHeaders,
                      JSONSlice(CursorAllNil(TRUE, found), enriched),
                      <<"Find">> \o EnrichCalls(list), <<>>, <<>>)

\* the ReviewResponse local to GetHub
NameReview(r) ==
    [id |-> r._id, user_name |-> UserName(r.user_id, "Unknown User"),
     comment |-> IF "comment" \in DOMAIN r THEN r.comment ELSE "",
     rating |-> r.rating]

\* GetHub on the reviews collection revs and the favorites collection favs
GetHubOn(revs, favs, caller, id, inm) ==
    LET uid == ObjectIDFromHex(caller)
        hasUser == caller # "" /\ uid.ok
        hid == ObjectIDFromHex(id)
        found == ById(hubs, hid.id)
        hub == DecodeHub(found[1])
        ofHub == SelectSeq(revs, LAMBDA r : r.hub_id = hid.id)
        named == [i \in 1..Len(ofHub) |-> NameReview(ofHub[i])]
        isFavorite ==
            hasUser /\ SelectSeq(favs, LAMBDA f : f.user_id = uid.id /\ f.hub_id = hid.id) # <<>>
        calls == <<"FindOne", "Find">> \o [i \in 1..Len(named) |-> "FindOne"]
                 \o (IF hasUser THEN <<"CountDocuments">> ELSE <<>>)
    IN  IF ~hid.ok THEN Fail(400, "invalid hub id", <<>>, <<>>)
        ELSE IF found = <<>> THEN Fail(404, "hub not found", <<"FindOne">>, <<>>)
        ELSE Conditional(hub, inm, FALSE,
                         ObjectBody([hub |-> hub,
                                     reviews |-> JSONSlice(TRUE, named),
                                     is_favorite |-> isFavorite]),
                         calls)

GetHubHandler(caller, id, inm) == GetHubOn(reviews, favorites, caller, id, inm)

UpdateHubHandler(caller, role, id, form, nfiles, failAt) ==
    LET oid == ObjectIDFromHex(id)
        found == ById(hubs, oid.id)
        up == UploadAll(nfiles, failAt, nextAsset)
        update == StageHub(form, up.urls, now)
        written == UpdateOne(hubs, oid.id, update)
        again == ById(written, oid.id)
    IN  IF caller = "" THEN Out(Fail(401, "unauthorized", <<>>, <<>>), hubs)
        ELSE IF ~oid.ok THEN Out(Fail(400, "Invalid hub ID", <<>>, <<>>), hubs)
        ELSE IF found = <<>> THEN Out(Fail(404, "Hub not found", <<"FindOne">>, <<>>), hubs)
        ELSE IF AccessDenied(role, DecodeHub(found[1]).user_id, caller)
        THEN Out(Fail(403, "Access denied", <<"FindOne">>, <<>>), hubs)
        ELSE IF form.title = "" THEN Out(Fail(400, "binding", <<"FindOne">>, <<>>), hubs)
        ELSE IF ~up.ok
        THEN Out(Fail(500, "image upload failed", <<"FindOne">>, up.log), hubs)
        ELSE IF NothingStaged(update)
        THEN Out(Fail(400, "no fields to update", <<"FindOne">>, up.log), hubs)
        ELSE Out(Response(200, "", NoHeaders, ObjectBody(DecodeHub(again[1])),
                          <<"FindOne", "UpdateOne", "FindOne">>, up.log, <<>>),
                 written)

DeleteHubHandler(caller, role, id, fails) ==
    LET oid == ObjectIDFromHex(id)
        found == ById(hubs, oid.id)
        existing == DecodeHub(found[1])
        log == DestroyAll(existing.images, fails)
    IN  IF caller = "" THEN Out(Fail(401, "unauthorized", <<>>, <<>>), hubs)
        ELSE IF ~oid.ok THEN Out(Fail(400, "invalid hub id", <<>>, <<>>), hubs)
        ELSE IF found = <<>> THEN Out(Fail(404, "Hub not found", <<"FindOne">>, <<>>), hubs)
        ELSE IF AccessDenied(role, existing.user_id, caller)
        THEN Out(Fail(403, "access denied", <<"FindOne">>, <<>>), hubs)
        ELSE IF Panicked(log)
        THEN Out(Panic(<<"FindOne", "DeleteOne">> \o DestroyCalls(log), log),
                 DeleteOne(hubs, oid.id))
        ELSE Out(Response(200, "", NoHeaders, ObjectBody([id |-> Hex(oid.id)]),
                          <<"FindOne", "DeleteOne">> \o DestroyCalls(log) \o <<"JSON">>,
                          <<>>, log),
                 DeleteOne(hubs, oid.id))

\* the JSON body AddReview binds
BlankReview == [malformed |-> FALSE, rating |-> 0, comment |-> ""]

\* binding:"required,min=1,max=5"
ReviewBinds(body) == ~body.malformed /\ body.rating # 0 /\ body.rating >= 1 /\ body.rating <= 5

\* models.Review as InsertOne writes it
MarshalReview(r) ==
    LET doc == [_id |-> r._id, user_id |-> r.user_id, hub_id |-> r.hub_id,
                rating |-> r.rating, comment |-> r.comment]
    IN Without(doc, IF r.comment = "" THEN {"comment"} ELSE {})

AddReviewHandler(caller, id, body) ==
    LET uid == ObjectIDFromHex(caller)
        hid == ObjectIDFromHex(id)
        review == [_id |-> nextId, user_id |-> uid.id, hub_id |-> hid.id,
                   rating |-> body.rating, comment |-> body.comment]
    IN  IF ~uid.ok THEN Out(Fail(401, "invalid user id", <<>>, <<>>), reviews)
        ELSE IF ~hid.ok THEN Out(Fail(400, "invalid hub id", <<>>, <<>>), reviews)
        ELSE IF ~ReviewBinds(body) THEN Out(Fail(400, "binding", <<>>, <<>>), reviews)
        ELSE Out(Response(201, "", NoHeaders, ObjectBody(review),
                          <<"InsertOne">>, <<>>, <<>>),
                 Append(reviews, MarshalReview(review)))

\* deleteFails: the store answers the DeleteOne of the unfavorite path with
\* an error, which "_, _ =" drops
ToggleFavoriteHandler(caller, id, deleteFails) ==
    LET uid == ObjectIDFromHex(caller)
        hid == ObjectIDFromHex(id)
        fav == FavoriteOf(uid.id, hid.id)
        favorite == [_id |-> nextId, user_id |-> uid.id, hub_id |-> hid.id]
    IN  IF ~uid.ok THEN Out(Fail(401, "invalid user id", <<>>, <<>>), favorites)
        ELSE IF ~hid.ok THEN Out(Fail(400, "invalid hub id", <<>>, <<>>), favorites)
        ELSE IF fav # <<>>
        THEN Out(Response(200, "", NoHeaders, ObjectBody([favorite |-> FALSE]),
                          <<"FindOne", "DeleteOne">>, <<>>, <<>>),
                 IF deleteFails THEN favorites ELSE DeleteOne(favorites, fav[1]._id))
        ELSE Out(Response(200, "", NoHeaders, ObjectBody([favorite |-> TRUE]),
                          <<"FindOne", "InsertOne">>, <<>>, <<>>),
                 Append(favorites, favorite))

ListFavoritesHandler(caller) ==
    LET uid == ObjectIDFromHex(caller)
        favs == SelectSeq(favorites, LAMBDA f : f.user_id = uid.id)
        hubIDs == {favs[i].hub_id : i \in 1..Len(favs)}
        found == SelectSeq(hubs, LAMBDA d : d._id \in hubIDs)
    IN  IF ~uid.ok THEN Fail(401, "invalid user id", <<>>, <<>>)
        ELSE Response(200, "", NoHeaders,
                      JSONSlice(CursorAllNil(TRUE, found), DecodeHubs(found)),
                      <<"Find", "Find">>, <<>>, <<>>)

(* ------------------------------ requests ------------------------------- *)
\* the forms CreateEvent is driven with
EventCreateForms ==
    { BlankEventForm,
      [BlankEventForm EXCEPT !.title = "a"],
      [BlankEventForm EXCEPT !.title = "a", !.deadline = <<"soon">>] }

\* the forms UpdateEvent is driven with
EventForms ==
    { BlankEventForm,
      [BlankEventForm EXCEPT !.title = "a"],
      [BlankEventForm EXCEPT !.title = "b", !.description = "d", !.location = "l",
                             !.target_amount = 5, !.status = "CLOSED",
                             !.deadline = <<"2030-01-01">>],
      [BlankEventForm EXCEPT !.description = "d", !.deadline = <<"soon">>] }

\* the If-None-Match values a client sends: none, a tag no resource has, or
\* the tag of a stored document
StaleTag == GenerateETag(0, 0)

TagsOf(coll) == {NoTag, StaleTag}
                \cup {GenerateETag(d._id, d.updated_at) : d \in Range(coll)}

\* the lists of URLs to keep a client sends with an update: none, or one of
\* the uploaded ones
RetainedLists == {<<>>} \cup {<<AssetURL(n)>> : n \in 1..nextAsset}

\* the image list of the document id names in coll
StoredImages(coll, id) ==
    LET found == ById(coll, ObjectIDFromHex(id).id)
    IN  IF found = <<>> \/ "images" \notin DOMAIN found[1] THEN <<>>
        ELSE found[1].images

\* the update requests: a form alone, a form with kept URLs and new files,
\* the failAt-th upload failing (0: none), a form with a URL of the client's
\* own making in place of the kept ones, or a form that does not pass
\* validation with a new file
UpdateRequests(forms, imageForms, refusedForms) ==
    {[form |-> t, nfiles |-> 0, failAt |-> 0] : t \in forms}
    \cup {[form |-> t, nfiles |-> MaxNewFiles, failAt |-> 0] : t \in refusedForms}
    \cup {[form |-> [t EXCEPT !.images = <<u>>], nfiles |-> 0, failAt |-> 0] :
            t \in imageForms, u \in ClientURLs}
    \cup {[form |-> [t EXCEPT !.images = r], nfiles |-> n, failAt |-> f] :
            t \in imageForms, r \in RetainedLists,
            n \in 0..MaxNewFiles, f \in 0..MaxNewFiles}

\* the JSON bodies CreateContribution is driven with
ContributionCreateBodies ==
    {BlankContribution, [BlankContribution EXCEPT !.malformed = TRUE]}
    \cup {[BlankContribution EXCEPT !.event_id = e, !.contributor_name = "n",
                                    !.amount = a, !.currency = "KES"] :
            e \in IdParams, a \in {-5, 5}}

\* the JSON bodies UpdateContribution is driven with
ContributionBodies ==
    { BlankContribution,
      [BlankContribution EXCEPT !.malformed = TRUE],
      [BlankContribution EXCEPT !.amount = -5],
      [BlankContribution EXCEPT !.amount = -5, !.status = "FAILED"],
      [BlankContribution EXCEPT !.amount = 7, !.status = "CONFIRMED"] }

\* the forms CreateHub is driven with
HubCreateForms ==
    { BlankHubForm,
      [BlankHubForm EXCEPT !.title = "a", !.lat = <<1>>, !.lng = <<2>>,
                           !.location_name = "l", !.rating = 3] }

\* the forms UpdateHub is driven with
HubForms ==
    { BlankHubForm,
      [BlankHubForm EXCEPT !.title = "a"],
      [BlankHubForm EXCEPT !.title = "a", !.lat = <<5>>,
                           !.location_name = "m", !.rating = 4] }

\* the JSON bodies AddReview is driven with
ReviewBodies ==
    { BlankReview, [BlankReview EXCEPT !.rating = 9],
      [BlankReview EXCEPT !.rating = 4, !.comment = "c"] }

NoRequest ==
    [op |-> "none", caller |-> "", role |-> "", id |-> "", q |-> "",
     inm |-> NoTag, form |-> <<>>, nfiles |-> 0,
     resp |-> Response(0, "", NoHeaders, NoBody, <<>>, <<>>, <<>>),
     pre |-> <<>>]

Request(op, caller, role, id, q, inm, form, nfiles, resp, pre) ==
    [op |-> op, caller |-> caller, role |-> role, id |-> id, q |-> q,
     inm |-> inm, form |-> form, nfiles |-> nfiles, resp |-> resp, pre |-> pre]

FirstDocId == Cardinality(UserOids) + 1

CanInsert == nextId < FirstDocId + MaxIds

\* the server answers one request at a time: last is the request being
\* answered, with its response, until the client has it
Idle == last.op = "none"

(* ------------------------------- workers ------------------------------- *)
\* gin serves every request on a goroutine of its own; inflight[p] is the
\* request goroutine p is serving and how far it has got: what its first
\* FindOne decoded (existing), what it staged (update), and its answer once
\* pc is "done".  matched, imagesReplaced, removed and parent record what the
\* store did at its write: the documents matched, a later write of another
\* request replacing the image list it wrote, the document its DeleteOne
\* took away, and the referenced event being there at its InsertOne
Procs == {1, 2}

NoWorker ==
    [op |-> "none", pc |-> "idle", caller |-> "", role |-> "", id |-> "",
     form |-> <<>>, existing |-> <<>>, update |-> <<>>, matched |-> -1,
     imagesReplaced |-> FALSE, removed |-> <<>>, parent |-> FALSE,
     resp |-> Response(0, "", NoHeaders, NoBody, <<>>, <<>>, <<>>)]

Worker(op, pc, caller, role, id, resp) ==
    [NoWorker EXCEPT !.op = op, !.pc = pc, !.caller = caller, !.role = role,
                     !.id = id, !.resp = resp]

\* the handler, run alone, gets to the store call named
Reaches(resp, call) == call \in Range(resp.calls)

(* ------------------------------- actions ------------------------------- *)
Init ==
    /\ app \in Apps
    /\ events = <<>> /\ contributions = <<>>
    /\ hubs = <<>> /\ reviews = <<>> /\ favorites = <<>>
    /\ now = 0 /\ nextId = FirstDocId /\ nextAsset = 0
    /\ last = NoRequest
    /\ inflight = [p \in Procs |-> NoWorker]

\* the wall clock moves on between two requests
Tick ==
    /\ Idle /\ now < MaxClock
    /\ now' = now + 1
    /\ UNCHANGED <<app, inflight, events, contributions, hubs, reviews, favorites,
                   nextId, nextAsset, last>>

CreateEvent ==
    /\ Idle /\ app = "tracker" /\ CanInsert
    /\ \E caller \in Callers, form \in EventCreateForms,
          nfiles \in 0..MaxFiles, failAt \in 0..MaxFiles :
         LET out == CreateEventHandler(caller, form, nfiles, failAt) IN
         /\ failAt <= nfiles /\ nextAsset + nfiles <= MaxAssets
         /\ events' = out.coll
         /\ nextId' = IF out.resp.status = 201 THEN nextId + 1 ELSE nextId
         /\ nextAsset' = nextAsset + Len(SelectSeq(out.resp.uploads, LAMBDA u : u # "failed"))
         /\ last' = Request("CreateEvent", caller, "", "", "", NoTag, form, nfiles,
                            out.resp, events)
    /\ UNCHANGED <<app, inflight, contributions, hubs, reviews, favorites, now>>

ListEvents ==
    /\ Idle /\ app = "tracker"
    /\ \E caller \in Callers, q \in {"", "A"}, inm \in TagsOf(events) :
         last' = Request("ListEvents", caller, "", "", q, inm, <<>>, 0,
                         ListEventsHandler(caller, q, inm), events)
    /\ UNCHANGED <<app, inflight, events, contributions, hubs, reviews, favorites,
                   now, nextId, nextAsset>>

GetEvent ==
    /\ Idle /\ app = "tracker"
    /\ \E caller \in Callers, id \in IdParams, inm \in TagsOf(events) :
         last' = Request("GetEvent", caller, "", id, "", inm, <<>>, 0,
                         GetEventHandler(caller, id, inm), events)
    /\ UNCHANGED <<app, inflight, events, contributions, hubs, reviews, favorites,
                   now, nextId, nextAsset>>

UpdateEvent ==
    /\ Idle /\ app = "tracker"
    /\ \E s \in Sessions, id \in IdParams,
          r \in UpdateRequests(EventForms, {BlankEventForm},
                               {f \in EventForms : HasDeadline(f)
                                                    /\ ~ParseDeadline(f.deadline[1]).ok}) :
         LET out == UpdateEventHandler(s.user_id, s.role, id, r.form, r.nfiles, r.failAt) IN
         /\ r.failAt <= r.nfiles /\ nextAsset + r.nfiles <= MaxAssets
         /\ events' = out.coll
         /\ nextAsset' = nextAsset + Len(SelectSeq(out.resp.uploads, LAMBDA u : u # "failed"))
         /\ last' = Request("UpdateEvent", s.user_id, s.role, id, "", NoTag, r.form,
                            r.nfiles, out.resp, events)
    /\ UNCHANGED <<app, inflight, contributions, hubs, reviews, favorites, now, nextId>>

DeleteEvent ==
    /\ Idle /\ app = "tracker"
    /\ \E s \in Sessions, id \in IdParams :
       \E fails \in SUBSET (1..Len(StoredImages(events, id))) :
         LET out == DeleteEventHandler(s.user_id, s.role, id, fails) IN
         /\ fails \subseteq 1..Len(out.resp.destroys)
         /\ events' = out.coll
         /\ last' = Request("DeleteEvent", s.user_id, s.role, id, "", NoTag, <<>>, 0,
                            out.resp, events)
    /\ UNCHANGED <<app, inflight, contributions, hubs, reviews, favorites,
                   now, nextId, nextAsset>>

CreateContribution ==
    /\ Idle /\ app = "tracker" /\ CanInsert
    /\ \E body \in ContributionCreateBodies :
         LET out == CreateContributionHandler(body) IN
         /\ contributions' = out.coll
         /\ nextId' = IF out.resp.status = 201 THEN nextId + 1 ELSE nextId
         /\ last' = Request("CreateContribution", "", "", "", "", NoTag, body, 0,
                            out.resp, contributions)
    /\ UNCHANGED <<app, inflight, events, hubs, reviews, favorites, now, nextAsset>>

ListContributions ==
    /\ Idle /\ app = "tracker"
    /\ \E eventq \in {""} \cup IdParams, statusq \in {"", "CONFIRMED"},
          inm \in TagsOf(contributions) :
         last' = Request("ListContributions", "", "", eventq, statusq, inm, <<>>, 0,
                         ListContributionsHandler(eventq, statusq, inm), contributions)
    /\ UNCHANGED <<app, inflight, events, contributions, hubs, reviews, favorites,
                   now, nextId, nextAsset>>

GetContribution ==
    /\ Idle /\ app = "tracker"
    /\ \E id \in IdParams, inm \in TagsOf(contributions) :
         last' = Request("GetContribution", "", "", id, "", inm, <<>>, 0,
                         GetContributionHandler(id, inm), contributions)
    /\ UNCHANGED <<app, inflight, events, contributions, hubs, reviews, favorites,
                   now, nextId, nextAsset>>

UpdateContribution ==
    /\ Idle /\ app = "tracker"
    /\ \E id \in IdParams, body \in ContributionBodies :
         LET out == UpdateContributionHandler(id, body) IN
         /\ contributions' = out.coll
         /\ last' = Request("UpdateContribution", "", "", id, "", NoTag, body, 0,
                            out.resp, contributions)
    /\ UNCHANGED <<app, inflight, events, hubs, reviews, favorites, now, nextId, nextAsset>>

DeleteContribution ==
    /\ Idle /\ app = "tracker"
    /\ \E id \in IdParams :
         LET out == DeleteContributionHandler(id) IN
         /\ contributions' = out.coll
         /\ last' = Request("DeleteContribution", "", "", id, "", NoTag, <<>>, 0,
                            out.resp, contributions)
    /\ UNCHANGED <<app, inflight, events, hubs, reviews, favorites, now, nextId, nextAsset>>

CreateHub ==
    /\ Idle /\ app = "hubs" /\ CanInsert
    /\ \E caller \in Callers, form \in HubCreateForms,
          nfiles \in 0..MaxFiles, failAt \in 0..MaxFiles :
         LET out == CreateHubHandler(caller, form, nfiles, failAt) IN
         /\ failAt <= nfiles /\ nextAsset + nfiles <= MaxAssets
         /\ hubs' = out.coll
         /\ nextId' = IF out.resp.status = 201 THEN nextId + 1 ELSE nextId
         /\ nextAsset' = nextAsset + Len(SelectSeq(out.resp.uploads, LAMBDA u : u # "failed"))
         /\ last' = Request("CreateHub", caller, "", "", "", NoTag, form, nfiles,
                            out.resp, hubs)
    /\ UNCHANGED <<app, inflight, events, contributions, reviews, favorites, now>>

ListHubs ==
    /\ Idle /\ app = "hubs"
    /\ \E caller \in Callers, q \in {"", "B"}, inm \in TagsOf(hubs) :
         last' = Request("ListHubs", caller, "", "", q, inm, <<>>, 0,
                         ListHubsHandler(caller, q, inm), hubs)
    /\ UNCHANGED <<app, inflight, events, contributions, hubs, reviews, favorites,
                   now, nextId, nextAsset>>

GetHub ==
    /\ Idle /\ app = "hubs"
    /\ \E caller \in Callers, id \in IdParams, inm \in TagsOf(hubs) :
         last' = Request("GetHub", caller, "", id, "", inm, <<>>, 0,
                         GetHubHandler(caller, id, inm), hubs)
    /\ UNCHANGED <<app, inflight, events, contributions, hubs, reviews, favorites,
                   now, nextId, nextAsset>>

UpdateHub ==
    /\ Idle /\ app = "hubs"
    /\ \E s \in Sessions, id \in IdParams,
          r \in UpdateRequests(HubForms, {[BlankHubForm EXCEPT !.title = "a"]},
                               {f \in HubForms : f.title = ""}) :
         LET out == UpdateHubHandler(s.user_id, s.role, id, r.form, r.nfiles, r.failAt) IN
         /\ r.failAt <= r.nfiles /\ nextAsset + r.nfiles <= MaxAssets
         /\ hubs' = out.coll
         /\ nextAsset' = nextAsset + Len(SelectSeq(out.resp.uploads, LAMBDA u : u # "failed"))
         /\ last' = Request("UpdateHub", s.user_id, s.role, id, "", NoTag, r.form,
                            r.nfiles, out.resp, hubs)
    /\ UNCHANGED <<app, inflight, events, contributions, reviews, favorites, now, nextId>>

DeleteHub ==
    /\ Idle /\ app = "hubs"
    /\ \E s \in Sessions, id \in IdParams :
       \E fails \in SUBSET (1..Len(StoredImages(hubs, id))) :
         LET out == DeleteHubHandler(s.user_id, s.role, id, fails) IN
         /\ fails \subseteq 1..Len(out.resp.destroys)
         /\ hubs' = out.coll
         /\ last' = Request("DeleteHub", s.user_id, s.role, id, "", NoTag, <<>>, 0,
                            out.resp, hubs)
    /\ UNCHANGED <<app, inflight, events, contributions, reviews, favorites,
                   now, nextId, nextAsset>>

AddReview ==
    /\ Idle /\ app = "hubs" /\ CanInsert
    /\ \E caller \in Callers, id \in IdParams, body \in ReviewBodies :
         LET out == AddReviewHandler(caller, id, body) IN
         /\ reviews' = out.coll
         /\ nextId' = IF out.resp.status = 201 THEN nextId + 1 ELSE nextId
         /\ last' = Request("AddReview", caller, "", id, "", NoTag, body, 0,
                            out.resp, reviews)
    /\ UNCHANGED <<app, inflight, events, contributions, hubs, favorites, now, nextAsset>>

ToggleFavorite ==
    /\ Idle /\ app = "hubs"
    /\ \E caller \in Callers, id \in IdParams, deleteFails \in BOOLEAN :
         LET out == ToggleFavoriteHandler(caller, id, deleteFails) IN
         /\ deleteFails => "DeleteOne" \in Range(out.resp.calls)
         /\ Len(out.coll) > Len(favorites) => CanInsert
         /\ favorites' = out.coll
         /\ nextId' = IF Len(out.coll) > Len(favorites) THEN nextId + 1 ELSE nextId
         /\ last' = Request("ToggleFavorite", caller, "", id, "", NoTag, <<>>, 0,
                            out.resp, favorites)
    /\ UNCHANGED <<app, inflight, events, contributions, hubs, reviews, now, nextAsset>>

ListFavorites ==
    /\ Idle /\ app = "hubs"
    /\ \E caller \in Callers :
         last' = Request("ListFavorites", caller, "", "", "", NoTag, <<>>, 0,
                         ListFavoritesHandler(caller), hubs)
    /\ UNCHANGED <<app, inflight, events, contributions, hubs, reviews, favorites,
                   now, nextId, nextAsset>>

\* the client has the response
Complete ==
    /\ ~Idle
    /\ last' = NoRequest
    /\ UNCHANGED <<app, inflight, events, contributions, hubs, reviews, favorites,
                   now, nextId, nextAsset>>

Next ==
    \/ Tick \/ Complete
    \/ CreateEvent \/ ListEvents \/ GetEvent \/ UpdateEvent \/ DeleteEvent
    \/ CreateContribution \/ ListContributions \/ GetContribution
    \/ UpdateContribution \/ DeleteContribution
    \/ CreateHub \/ ListHubs \/ GetHub \/ UpdateHub \/ DeleteHub
    \/ AddReview \/ ToggleFavorite \/ ListFavorites

Spec == Init /\ [][Next]_vars

(* ------------------------- concurrent requests ------------------------- *)
\* The requests of two goroutines interleaved at their store calls.  A step
\* is what a handler does up to and including one store call; the uploads
\* and the asset deletes, which touch no collection, go with the store call
\* call before them.  CreateEvent, CreateHub and UpdateContribution have one
\* store call and are served in one step.  The racing clients are signed in
\* and name the first document the store holds; the asset host accepts every
\* delete.
RacingSessions == {s \in Sessions : s.user_id # ""}

RacingIds == {Hex(FirstDocId)}

\* the update requests of two racing clients: the kept URLs and new files
ConcurrentUpdates(imageForms) ==
    {[form |-> [t EXCEPT !.images = r], nfiles |-> n] :
        t \in imageForms, r \in RetainedLists, n \in 0..MaxNewFiles}

\* the write that is refused when the document is no longer the one fetched
WriteStagedIfUnchanged(coll, w) ==
    IF ById(coll, ObjectIDFromHex(w.id).id) = w.existing
    THEN UpdateOne(coll, ObjectIDFromHex(w.id).id, w.update)
    ELSE coll

\* col.UpdateOne(ctx, {_id: objID}, {$set: update}) of worker record w
WriteStaged(coll, w) == UpdateOne(coll, ObjectIDFromHex(w.id).id, w.update)

\* the record of another request after w's UpdateOne on coll: the image list
\* it wrote to the same document is replaced when w stages one
Replaced(other, w, coll) ==
    IF /\ other.op = w.op /\ other.id = w.id
       /\ other.pc \in {"refetch", "done"} /\ other.matched = 1
       /\ "images" \in DOMAIN w.update
       /\ ById(coll, ObjectIDFromHex(w.id).id) # <<>>
    THEN [other EXCEPT !.imagesReplaced = TRUE]
    ELSE other

\* inflight after the UpdateOne of goroutine p on coll
AfterWrite(p, coll) ==
    [q \in Procs |->
        IF q = p
        THEN [inflight[p] EXCEPT
                 !.pc = "refetch",
                 !.matched = IF ById(coll, ObjectIDFromHex(inflight[p].id).id) = <<>>
                             THEN 0 ELSE 1]
        ELSE Replaced(inflight[q], inflight[p], coll)]

\* the record of an update after its first part: answered, or on its way to
\* UpdateOne with what it fetched and staged
Fetched(op, s, id, resp, found, update) ==
    IF ~Reaches(resp, "UpdateOne")
    THEN Worker(op, "done", "", "", id, resp)
    ELSE [Worker(op, "write", "", "", id, resp) EXCEPT
             !.existing = found, !.update = update]

\* the answer of an update after its second FindOne
Refetched(found, body, error, uploads) ==
    IF found = <<>>
    THEN Fail(500, error, <<"FindOne", "UpdateOne", "FindOne">>, uploads)
    ELSE Response(200, "", NoHeaders, body,
                  <<"FindOne", "UpdateOne", "FindOne">>, uploads, <<>>)

\* the record of a delete after its FindOne and its permission check
Looked(op, s, id, resp, found) ==
    IF ~Reaches(resp, "DeleteOne")
    THEN Worker(op, "done", "", "", id, resp)
    ELSE [Worker(op, "delete", "", "", id, resp) EXCEPT !.existing = found]

\* the answer of a delete after its DeleteOne took the documents gone away:
\* DeletedCount == 0, or the loop over existing.Images
Removed404(error) == Fail(404, error, <<"FindOne", "DeleteOne">>, <<>>)

AfterRemove(w, gone, error, log) ==
    [w EXCEPT
        !.pc = "done", !.removed = gone,
        !.resp = IF gone = <<>> THEN Removed404(error)
                 ELSE IF Panicked(log)
                 THEN Panic(<<"FindOne", "DeleteOne">> \o DestroyCalls(log), log)
                 ELSE Response(200, "", NoHeaders,
                               ObjectBody([id |-> Hex(ObjectIDFromHex(w.id).id)]),
                               <<"FindOne", "DeleteOne">> \o DestroyCalls(log) \o <<"JSON">>,
                               <<>>, log)]

\* existing.Images of a delete: the image list of the document it decoded
FetchedImages(w) ==
    IF w.existing = <<>> \/ "images" \notin DOMAIN w.existing[1] THEN <<>>
    ELSE w.existing[1].images

\* the bodies of the racing contribution requests
RacingCreateBodies ==
    {b \in ContributionCreateBodies : b.event_id \in RacingIds /\ b.amount > 0}

RacingBodies == {b \in ContributionBodies : b.status # ""}

IdleWorker(p) == inflight[p].pc = "idle"

At(p, op, pc) == inflight[p].op = op /\ inflight[p].pc = pc

ServeCreateEvent ==
    /\ app = "tracker" /\ CanInsert
    /\ \E p \in Procs, s \in RacingSessions, nfiles \in 0..MaxNewFiles :
         LET out == CreateEventHandler(s.user_id, [BlankEventForm EXCEPT !.title = "a"],
                                       nfiles, 0) IN
         /\ IdleWorker(p) /\ nextAsset + nfiles <= MaxAssets
         /\ events' = out.coll
         /\ nextId' = IF out.resp.status = 201 THEN nextId + 1 ELSE nextId
         /\ nextAsset' = nextAsset + Len(out.resp.uploads)
         /\ inflight' = [inflight EXCEPT
                            ![p] = Worker("CreateEvent", "done", "", "", "", out.resp)]
    /\ UNCHANGED <<app, contributions, hubs, reviews, favorites, now, last>>

\* UpdateEvent up to its UpdateOne
UpdateEventFetch ==
    /\ app = "tracker"
    /\ \E p \in Procs, s \in RacingSessions, id \in RacingIds,
          r \in ConcurrentUpdates({BlankEventForm}) :
         LET out == UpdateEventHandler(s.user_id, s.role, id, r.form, r.nfiles, 0) IN
         /\ IdleWorker(p) /\ nextAsset + r.nfiles <= MaxAssets
         /\ nextAsset' = nextAsset + Len(out.resp.uploads)
         /\ inflight' = [inflight EXCEPT
                            ![p] = Fetched("UpdateEvent", s, id, out.resp,
                                           ById(events, ObjectIDFromHex(id).id),
                                           StageEvent(r.form, out.resp.uploads, now))]
    /\ UNCHANGED <<app, events, contributions, hubs, reviews, favorites,
                   now, nextId, last>>

UpdateEventWrite ==
    /\ app = "tracker"
    /\ \E p \in Procs :
         /\ At(p, "UpdateEvent", "write")
         /\ events' = WriteStaged(events, inflight[p])
         /\ inflight' = AfterWrite(p, events)
    /\ UNCHANGED <<app, contributions, hubs, reviews, favorites,
                   now, nextId, nextAsset, last>>

UpdateEventRefetch ==
    /\ app = "tracker"
    /\ \E p \in Procs :
         LET found == ById(events, ObjectIDFromHex(inflight[p].id).id) IN
         /\ At(p, "UpdateEvent", "refetch")
         /\ inflight' = [inflight EXCEPT
                            ![p].pc = "done",
                            ![p].resp = Refetched(found, ObjectBody(DecodeEvents(found)),
                                                  "Failed to retrieve updated event",
                                                  inflight[p].resp.uploads)]
    /\ UNCHANGED <<app, events, contributions, hubs, reviews, favorites,
                   now, nextId, nextAsset, last>>

\* DeleteEvent up to its DeleteOne
DeleteEventFetch ==
    /\ app = "tracker"
    /\ \E p \in Procs, s \in RacingSessions, id \in RacingIds :
         /\ IdleWorker(p)
         /\ inflight' = [inflight EXCEPT
                            ![p] = Looked("DeleteEvent", s, id,
                                          DeleteEventHandler(s.user_id, s.role, id, {}).resp,
                                          ById(events, ObjectIDFromHex(id).id))]
    /\ UNCHANGED <<app, events, contributions, hubs, reviews, favorites,
                   now, nextId, nextAsset, last>>

DeleteEventRemove ==
    /\ app = "tracker"
    /\ \E p \in Procs :
         LET gone == ById(events, ObjectIDFromHex(inflight[p].id).id)
             log == DestroyAll(FetchedImages(inflight[p]), {})
         IN
         /\ At(p, "DeleteEvent", "delete")
         /\ events' = DeleteOne(events, ObjectIDFromHex(inflight[p].id).id)
         /\ inflight' = [inflight EXCEPT
                            ![p] = AfterRemove(inflight[p], gone, "event not found", log)]
    /\ UNCHANGED <<app, contributions, hubs, reviews, favorites,
                   now, nextId, nextAsset, last>>

\* CreateContribution up to its InsertOne
CreateContributionCheck ==
    /\ app = "tracker"
    /\ \E p \in Procs, body \in RacingCreateBodies :
         LET resp == CreateContributionHandler(body).resp IN
         /\ IdleWorker(p)
         /\ inflight' = [inflight EXCEPT
                            ![p] = IF ~Reaches(resp, "InsertOne")
                                   THEN Worker("CreateContribution", "done", "", "", "", resp)
                                   ELSE [Worker("CreateContribution", "insert", "", "", "", resp)
                                            EXCEPT !.form = body]]
    /\ UNCHANGED <<app, events, contributions, hubs, reviews, favorites,
                   now, nextId, nextAsset, last>>

CreateContributionInsert ==
    /\ app = "tracker" /\ CanInsert
    /\ \E p \in Procs :
         /\ At(p, "CreateContribution", "insert")
         /\ contributions' = Append(contributions,
                                    MarshalContribution(NewContribution(inflight[p].form)))
         /\ nextId' = nextId + 1
         /\ inflight' = [inflight EXCEPT
                            ![p].pc = "done",
                            ![p].parent =
                                ById(events, BindContribution(inflight[p].form).event_id) # <<>>,
                            ![p].resp = Response(201, "", NoHeaders,
                                                 ObjectBody([id |-> Hex(nextId)]),
                                                 <<"FindOne", "InsertOne">>, <<>>, <<>>)]
    /\ UNCHANGED <<app, events, hubs, reviews, favorites, now, nextAsset, last>>

ServeUpdateContribution ==
    /\ app = "tracker"
    /\ \E p \in Procs, id \in IdParams \ {"zz"}, body \in RacingBodies :
         LET out == UpdateContributionHandler(id, body) IN
         /\ IdleWorker(p)
         /\ contributions' = out.coll
         /\ inflight' = [inflight EXCEPT
                            ![p] = [Worker("UpdateContribution", "done", "", "", id, out.resp)
                                       EXCEPT !.matched =
                                           IF ~Reaches(out.resp, "UpdateOne") THEN -1
                                           ELSE Len(ById(contributions,
                                                         ObjectIDFromHex(id).id))]]
    /\ UNCHANGED <<app, events, hubs, reviews, favorites, now, nextId, nextAsset, last>>

ServeCreateHub ==
    /\ app = "hubs" /\ CanInsert
    /\ \E p \in Procs, s \in RacingSessions, nfiles \in 0..MaxNewFiles :
         LET out == CreateHubHandler(s.user_id, [BlankHubForm EXCEPT !.title = "a"],
                                     nfiles, 0) IN
         /\ IdleWorker(p) /\ nextAsset + nfiles <= MaxAssets
         /\ hubs' = out.coll
         /\ nextId' = IF out.resp.status = 201 THEN nextId + 1 ELSE nextId
         /\ nextAsset' = nextAsset + Len(out.resp.uploads)
         /\ inflight' = [inflight EXCEPT
                            ![p] = Worker("CreateHub", "done", "", "", "", out.resp)]
    /\ UNCHANGED <<app, events, contributions, reviews, favorites, now, last>>

\* UpdateHub up to its UpdateOne
UpdateHubFetch ==
    /\ app = "hubs"
    /\ \E p \in Procs, s \in RacingSessions, id \in RacingIds,
          r \in ConcurrentUpdates({[BlankHubForm EXCEPT !.title = "a"]}) :
         LET out == UpdateHubHandler(s.user_id, s.role, id, r.form, r.nfiles, 0) IN
         /\ IdleWorker(p) /\ nextAsset + r.nfiles <= MaxAssets
         /\ nextAsset' = nextAsset + Len(out.resp.uploads)
         /\ inflight' = [inflight EXCEPT
                            ![p] = Fetched("UpdateHub", s, id, out.resp,
                                           ById(hubs, ObjectIDFromHex(id).id),
                                           StageHub(r.form, out.resp.uploads, now))]
    /\ UNCHANGED <<app, events, contributions, hubs, reviews, favorites,
                   now, nextId, last>>

UpdateHubWrite ==
    /\ app = "hubs"
    /\ \E p \in Procs :
         /\ At(p, "UpdateHub", "write")
         /\ hubs' = WriteStaged(hubs, inflight[p])
         /\ inflight' = AfterWrite(p, hubs)
    /\ UNCHANGED <<app, events, contributions, reviews, favorites,
                   now, nextId, nextAsset, last>>

UpdateHubRefetch ==
    /\ app = "hubs"
    /\ \E p \in Procs :
         LET found == ById(hubs, ObjectIDFromHex(inflight[p].id).id) IN
         /\ At(p, "UpdateHub", "refetch")
         /\ inflight' = [inflight EXCEPT
                            ![p].pc = "done",
                            ![p].resp = Refetched(found, ObjectBody(DecodeHubs(found)),
                                                  "Failed to retrieve updated hub",
                                                  inflight[p].resp.uploads)]
    /\ UNCHANGED <<app, events, contributions, hubs, reviews, favorites,
                   now, nextId, nextAsset, last>>

\* DeleteHub up to its DeleteOne
DeleteHubFetch ==
    /\ app = "hubs"
    /\ \E p \in Procs, s \in RacingSessions, id \in RacingIds :
         /\ IdleWorker(p)
         /\ inflight' = [inflight EXCEPT
                            ![p] = Looked("DeleteHub", s, id,
                                          DeleteHubHandler(s.user_id, s.role, id, {}).resp,
                                          ById(hubs, ObjectIDFromHex(id).id))]
    /\ UNCHANGED <<app, events, contributions, hubs, reviews, favorites,
                   now, nextId, nextAsset, last>>

DeleteHubRemove ==
    /\ app = "hubs"
    /\ \E p \in Procs :
         LET gone == ById(hubs, ObjectIDFromHex(inflight[p].id).id)
             log == DestroyAll(FetchedImages(inflight[p]), {})
         IN
         /\ At(p, "DeleteHub", "delete")
         /\ hubs' = DeleteOne(hubs, ObjectIDFromHex(inflight[p].id).id)
         /\ inflight' = [inflight EXCEPT
                            ![p] = AfterRemove(inflight[p], gone, "Hub not found", log)]
    /\ UNCHANGED <<app, events, contributions, reviews, favorites,
                   now, nextId, nextAsset, last>>

\* ToggleFavorite up to its FindOne
ToggleFavoriteFind ==
    /\ app = "hubs"
    /\ \E p \in Procs, s \in RacingSessions, id \in RacingIds :
         LET resp == ToggleFavoriteHandler(s.user_id, id, FALSE).resp IN
         /\ IdleWorker(p)
         /\ inflight' = [inflight EXCEPT
                            ![p] = IF ~Reaches(resp, "FindOne")
                                   THEN Worker("ToggleFavorite", "done", s.user_id, "", id, resp)
                                   ELSE [Worker("ToggleFavorite", "toggle", s.user_id, "", id, resp)
                                            EXCEPT !.existing =
                                                FirstOf(FavoriteOf(ObjectIDFromHex(s.user_id).id,
                                                                   ObjectIDFromHex(id).id))]]
    /\ UNCHANGED <<app, events, contributions, hubs, reviews, favorites,
                   now, nextId, nextAsset, last>>

\* the DeleteOne by the _id of the record found
ToggleFavoriteRemove ==
    /\ app = "hubs"
    /\ \E p \in Procs, deleteFails \in BOOLEAN :
         /\ At(p, "ToggleFavorite", "toggle") /\ inflight[p].existing # <<>>
         /\ favorites' = IF deleteFails THEN favorites
                         ELSE DeleteOne(favorites, inflight[p].existing[1]._id)
         /\ inflight' = [inflight EXCEPT
                            ![p].pc = "done",
                            ![p].resp = Response(200, "", NoHeaders,
                                                 ObjectBody([favorite |-> FALSE]),
                                                 <<"FindOne", "DeleteOne">>, <<>>, <<>>)]
    /\ UNCHANGED <<app, events, contributions, hubs, reviews, now, nextId, nextAsset, last>>

\* the InsertOne after a FindOne that found nothing
ToggleFavoriteInsert ==
    /\ app = "hubs" /\ CanInsert
    /\ \E p \in Procs :
         /\ At(p, "ToggleFavorite", "toggle") /\ inflight[p].existing = <<>>
         /\ favorites' = Append(favorites,
                                [_id |-> nextId,
                                 user_id |-> ObjectIDFromHex(inflight[p].caller).id,
                                 hub_id |-> ObjectIDFromHex(inflight[p].id).id])
         /\ nextId' = nextId + 1
         /\ inflight' = [inflight EXCEPT
                            ![p].pc = "done",
                            ![p].resp = Response(200, "", NoHeaders,
                                                 ObjectBody([favorite |-> TRUE]),
                                                 <<"FindOne", "InsertOne">>, <<>>, <<>>)]
    /\ UNCHANGED <<app, events, contributions, hubs, reviews, now, nextAsset, last>>

\* the client has the answer of goroutine p
Answered ==
    /\ \E p \in Procs :
         /\ inflight[p].pc = "done"
         /\ inflight' = [inflight EXCEPT ![p] = NoWorker]
    /\ UNCHANGED <<app, events, contributions, hubs, reviews, favorites,
                   now, nextId, nextAsset, last>>

ConcNext ==
    \/ Answered
    \/ ServeCreateEvent \/ UpdateEventFetch \/ UpdateEventWrite \/ UpdateEventRefetch
    \/ DeleteEventFetch \/ DeleteEventRemove
    \/ CreateContributionCheck \/ CreateContributionInsert \/ ServeUpdateContribution
    \/ ServeCreateHub \/ UpdateHubFetch \/ UpdateHubWrite \/ UpdateHubRefetch
    \/ DeleteHubFetch \/ DeleteHubRemove
    \/ ToggleFavoriteFind \/ ToggleFavoriteRemove \/ ToggleFavoriteInsert

ConcSpec == Init /\ [][ConcNext]_vars

(* ------------------------------ properties ----------------------------- *)
EventOps == {"CreateEvent", "ListEvents", "GetEvent", "UpdateEvent", "DeleteEvent"}
ContributionOps == {"CreateContribution", "ListContributions", "GetContribution",
                    "UpdateContribution", "DeleteContribution"}

\* the collection the request being answered works on, as it is now
StoreOf(op) ==
    CASE op \in EventOps        -> events
      [] op \in ContributionOps -> contributions
      [] op = "AddReview"       -> reviews
      [] op = "ToggleFavorite"  -> favorites
      [] OTHER                  -> hubs

\* the documents of coll the :id of the request names
Targeted(coll) == ById(coll, ObjectIDFromHex(last.id).id)

OwnedOps == {"UpdateEvent", "DeleteEvent", "UpdateHub", "DeleteHub"}

\* C1: an update or delete of an existing event or hub by a caller with an
\* identity passes the permission check exactly when the role is "admin" or
\* the caller owns the resource; a caller who is neither gets 403 whatever the
\* payload, and the collection and the asset host are as they were.
C1_Authorization ==
    (last.op \in OwnedOps /\ last.caller # "" /\ Targeted(last.pre) # <<>>) =>
        LET owner == Targeted(last.pre)[1].user_id
            allowed == last.role = "admin" \/ last.caller = Hex(owner)
        IN  /\ allowed <=> last.resp.status # 403
            /\ ~allowed => /\ StoreOf(last.op) = last.pre
                           /\ last.resp.uploads = <<>>
                           /\ last.resp.destroys = <<>>

\* a caller who neither owns the event nor is an administrator sends an
\* update with a file and is refused
C1_Witness ==
    /\ last.op = "UpdateEvent" /\ last.resp.status = 403
    /\ last.nfiles > 0 /\ last.role = "user"

UpdateOps == {"UpdateContribution", "UpdateEvent", "UpdateHub"}

\* the payload of the update being answered has every field absent
AllAbsent ==
    CASE last.op = "UpdateContribution" -> last.form = BlankContribution
      [] last.op = "UpdateEvent" -> last.form = BlankEventForm /\ last.nfiles = 0
      [] last.op = "UpdateHub"   -> last.form = BlankHubForm /\ last.nfiles = 0
      [] OTHER -> FALSE

\* the update being answered is past the identity, id, existence and
\* ownership checks of its handler
PastChecks ==
    /\ ObjectIDFromHex(last.id).ok
    /\ last.op \in {"UpdateEvent", "UpdateHub"} =>
         /\ last.caller # "" /\ Targeted(last.pre) # <<>>
         /\ last.role = "admin" \/ last.caller = Hex(Targeted(last.pre)[1].user_id)

ImageOps == {"UpdateEvent", "UpdateHub"}

\* the image list of the document the request names, in coll
ImagesIn(coll) == Targeted(coll)[1].images

\* C3: a successful update of an event or hub that carries a list R of URLs
\* to keep and/or new files uploaded as the URLs N leaves exactly R followed
\* by N as the stored image list, whatever was stored before.
C3_ImageAppend ==
    (last.op \in ImageOps /\ last.resp.status = 200
        /\ (last.form.images # <<>> \/ last.nfiles > 0)) =>
        ImagesIn(StoreOf(last.op)) = last.form.images \o last.resp.uploads

\* an event that has an image is updated with a URL to keep and a new file,
\* and its image list changes
C3_Witness ==
    /\ last.op = "UpdateEvent" /\ last.resp.status = 200
    /\ last.form.images # <<>> /\ last.nfiles > 0
    /\ ImagesIn(last.pre) # <<>>
    /\ ImagesIn(events) # ImagesIn(last.pre)

\* C4: a successful update of an event or hub that carries neither a list of
\* URLs to keep nor a new file leaves the stored image list as it was.
C4_ImagesUntouched ==
    (last.op \in ImageOps /\ last.resp.status = 200
        /\ last.form.images = <<>> /\ last.nfiles = 0) =>
        ImagesIn(StoreOf(last.op)) = ImagesIn(last.pre)

\* a hub that has images is updated without any image part
C4_Witness ==
    /\ last.op = "UpdateHub" /\ last.resp.status = 200
    /\ last.form.images = <<>> /\ last.nfiles = 0
    /\ ImagesIn(last.pre) # <<>>

\* the hub the request names as Decode reads it from coll
HubIn(coll) == DecodeHub(Targeted(coll)[1])

\* C5 as stated: a successful UpdateHub that carries one axis of the
\* coordinates leaves the stored value of the other axis as it was.
C5_Original ==
    (last.op = "UpdateHub" /\ last.resp.status = 200) =>
        /\ (last.form.lat # <<>> /\ last.form.lng = <<>>) =>
              HubIn(hubs).coordinates.lng = HubIn(last.pre).coordinates.lng
        /\ (last.form.lng # <<>> /\ last.form.lat = <<>>) =>
              HubIn(hubs).coordinates.lat = HubIn(last.pre).coordinates.lat

\* C6 as stated: after a successful UpdateHub that carries a rating above
\* zero or a location name, the hub read back has the rating and the
\* location name of the request.
C6_Original ==
    (last.op = "UpdateHub" /\ last.resp.status = 200) =>
        /\ last.form.rating > 0 =>
              /\ HubIn(hubs).rating = last.form.rating
              /\ last.resp.body.val[1].rating = last.form.rating
        /\ last.form.location_name # "" =>
              /\ HubIn(hubs).location_name = last.form.location_name
              /\ last.resp.body.val[1].location_name = last.form.location_name

ListOps == {"ListEvents", "ListContributions", "ListHubs", "ListFavorites"}
GetOps == {"GetEvent", "GetContribution", "GetHub"}
ConditionalOps == {"ListEvents", "ListContributions", "ListHubs"} \cup GetOps

\* the read being answered carries what its endpoint demands: an identity
\* where the handler wants one, a well formed id on a get
ReadAccepted ==
    /\ last.op \in {"ListEvents", "GetEvent", "ListHubs", "ListFavorites"} =>
         last.caller # ""
    /\ last.op \in GetOps => ObjectIDFromHex(last.id).ok

\* the documents the read being answered is about: what its query matches
ReadResult ==
    LET uid == ObjectIDFromHex(last.caller).id
        eid == ObjectIDFromHex(last.id)
    IN CASE last.op = "ListEvents" ->
              SelectSeq(events, LAMBDA d : d.user_id = uid
                            /\ (last.q = "" \/ RegexMatchI(last.q, d.title)))
         [] last.op = "GetEvent" ->
              SelectSeq(events, LAMBDA d : d._id = eid.id /\ d.user_id = uid)
         [] last.op = "ListContributions" ->
              SelectSeq(contributions, LAMBDA d :
                            /\ eid.ok => d.event_id = eid.id
                            /\ last.q # "" => d.status = last.q)
         [] last.op = "GetContribution" -> Targeted(contributions)
         [] last.op = "ListHubs" ->
              SelectSeq(hubs, LAMBDA d : last.q = "" \/ RegexMatchI(last.q, d.title))
         [] last.op = "GetHub" -> Targeted(hubs)
         [] last.op = "ListFavorites" ->
              SelectSeq(hubs, LAMBDA d : \E i \in 1..Len(favorites) :
                            favorites[i].user_id = uid /\ favorites[i].hub_id = d._id)
         [] OTHER -> <<>>

\* the freshest document of a non-empty result and its fingerprint
Freshest == Latest(ReadResult)
FreshestTag == GenerateETag(Freshest._id, Freshest.updated_at)

FullBody == last.resp.status = 200 /\ last.resp.body.kind \in {"array", "object"}

\* C7 as stated: a list or get of events, contributions or hubs with a
\* non-empty result answers 304 without body and without Last-Modified when
\* If-None-Match is the fingerprint of the freshest item, and the full body
\* when it is another fingerprint or none.
C7_Original ==
    (last.op \in ConditionalOps /\ ReadAccepted /\ ReadResult # <<>>) =>
        IF last.inm = FreshestTag
        THEN /\ last.resp.status = 304 /\ last.resp.body = NoBody
             /\ last.resp.headers.lastmod = <<>>
        ELSE FullBody

C9_Original ==
    (last.op \in ListOps /\ ReadAccepted /\ ReadResult = <<>>) =>
        /\ last.resp.status = 200
        /\ last.resp.body = ArrayBody(<<>>)

\* the result set of ListEvents on coll for user u and title filter q, and
\* the ETag the endpoint answers with on it
EventsOfUser(coll, u, q) ==
    SelectSeq(coll, LAMBDA d : d.user_id = u /\ (q = "" \/ RegexMatchI(q, d.title)))
EventListTag(coll, u, q) == ListEventsOn(coll, Hex(u), q, NoTag).headers.etag

\* the ETag ListContributions answers with on coll without a filter
ContributionListTag(coll) == ListContributionsOn(coll, "", "", NoTag).headers.etag

\* after is before with the updated_at of exactly one item changed (the
\* other fields of that item may change with it)
OneTouched(before, after) ==
    /\ Len(after) = Len(before)
    /\ \A i \in 1..Len(before) : after[i]._id = before[i]._id
    /\ \E i \in 1..Len(before) :
         /\ after[i].updated_at # before[i].updated_at
         /\ \A j \in (1..Len(before)) \ {i} : after[j] = before[j]

\* the one touched item was the freshest, or is now later than all were
FreshestMoved(before, after) ==
    \E i \in 1..Len(before) :
        /\ after[i].updated_at # before[i].updated_at
        /\ \/ before[i]._id = Latest(before)._id
           \/ \A j \in 1..Len(before) : after[i].updated_at > before[j].updated_at

\* the ETag of a list answer depends on the result set alone: it is the one
\* the endpoint computes for a request without If-None-Match
SameOnEveryComputation ==
    /\ (last.op = "ListEvents" /\ last.resp.status = 200 /\ ReadResult # <<>>) =>
          last.resp.headers.etag
            = EventListTag(events, ObjectIDFromHex(last.caller).id, last.q)
    /\ (last.op = "ListContributions" /\ last.resp.status = 200
          /\ last.id = "" /\ last.q = "" /\ ReadResult # <<>>) =>
          last.resp.headers.etag = ContributionListTag(contributions)

ParentEvent == ById(events, BindContribution(last.form).event_id)

\* the body of the CreateContribution being answered bound and names an event
NamesEvent ==
    /\ last.op = "CreateContribution"
    /\ BindContribution(last.form).ok
    /\ BindContribution(last.form).event_id # 0

\* C11: a CreateContribution whose event exists and whose amount is zero or
\* less is answered 400 "amount must be greater than 0"; one whose event id
\* names no stored event is answered "event not found"; neither inserts a
\* contribution.
C11_CreateContributionRejections ==
    NamesEvent =>
        /\ (ParentEvent # <<>> /\ last.form.amount <= 0) =>
              /\ last.resp.status = 400
              /\ last.resp.error = "amount must be greater than 0"
              /\ contributions = last.pre
              /\ "InsertOne" \notin Range(last.resp.calls)
        /\ ParentEvent = <<>> =>
              /\ last.resp.error = "event not found"
              /\ last.resp.body = ErrorBody
              /\ contributions = last.pre
              /\ "InsertOne" \notin Range(last.resp.calls)

\* a contribution of -5 to a stored event is refused
C11_Witness ==
    /\ NamesEvent /\ ParentEvent # <<>> /\ last.form.amount = -5
    /\ last.resp.error = "amount must be greater than 0"

TargetOps == GetOps \cup UpdateOps
             \cup {"DeleteEvent", "DeleteContribution", "DeleteHub"}

\* the request being answered has passed the checks its handler makes
\* before it looks the target up: the caller's identity, a well formed id,
\* and in UpdateContribution a body that binds and stages a field
ReachesLookup ==
    /\ ObjectIDFromHex(last.id).ok
    /\ last.op = "GetEvent" => ObjectIDFromHex(last.caller).ok
    /\ last.op \in OwnedOps => last.caller # ""
    /\ last.op = "UpdateContribution" =>
         /\ BindContribution(last.form).ok
         /\ ~NothingStaged(StageContribution(last.form, 0))

\* C12 as stated: a get, update or delete whose target is not in the store,
\* and a CreateContribution whose event is not in the store, are answered 404.
C12_Original ==
    /\ (last.op \in TargetOps /\ ReachesLookup /\ Targeted(last.pre) = <<>>) =>
          last.resp.status = 404
    /\ (NamesEvent /\ ParentEvent = <<>>) => last.resp.status = 404

\* C12 amended: a get, update or delete that has passed the checks made
\* before the lookup and whose target is not in the store is answered 404 and
\* leaves the collection as it was; a CreateContribution whose event is not
\* in the store is answered 400 "event not found".
C12_AbsentTarget ==
    /\ (last.op \in TargetOps /\ ReachesLookup /\ Targeted(last.pre) = <<>>) =>
          /\ last.resp.status = 404
          /\ last.resp.body = ErrorBody
          /\ StoreOf(last.op) = last.pre
    /\ (NamesEvent /\ ParentEvent = <<>>) =>
          /\ last.resp.status = 400
          /\ last.resp.error = "event not found"

\* a delete names an id the store has handed out and no contribution has
C12_Witness ==
    /\ last.op = "DeleteContribution" /\ last.resp.status = 404
    /\ ReachesLookup /\ Targeted(last.pre) = <<>>
    /\ ObjectIDFromHex(last.id).id < nextId

CreateWithFiles == {"CreateEvent", "CreateHub"}

\* the upload calls of the request being answered were made for consecutive
\* files, and none was made after one that failed
UploadsInOrder ==
    LET log == last.resp.uploads IN
    /\ Len(log) <= last.nfiles
    /\ \A i \in 1..(Len(log) - 1) : log[i] # "failed"
    /\ \E first \in 0..MaxAssets :
         \A i \in 1..Len(log) : log[i] \in {"failed", AssetURL(first + i)}

\* C13: CreateEvent and CreateHub upload the files one after the other; when
\* an upload fails the answer is 500 "image upload failed", no further file
\* is uploaded and no document is inserted; when none fails every file was
\* uploaded and the document holds their URLs in order.
C13_UploadAbort ==
    last.op \in CreateWithFiles =>
        /\ UploadsInOrder
        /\ "failed" \in Range(last.resp.uploads) =>
              /\ last.resp.status = 500
              /\ last.resp.error = "image upload failed"
              /\ last.resp.calls = <<>>
              /\ StoreOf(last.op) = last.pre
        /\ last.resp.status = 201 =>
              /\ Len(last.resp.uploads) = last.nfiles
              /\ StoreOf(last.op)[Len(StoreOf(last.op))].images = last.resp.uploads

\* the first of two files of a CreateHub fails to upload
C13_Witness ==
    /\ last.op = "CreateHub" /\ last.nfiles = 2
    /\ last.resp.uploads = <<"failed">>
    /\ last.resp.status = 500 /\ hubs = last.pre

DeleteWithAssets == {"DeleteEvent", "DeleteHub"}

\* the document the delete being answered names was in the store and is gone
Removed ==
    /\ ObjectIDFromHex(last.id).ok
    /\ Targeted(last.pre) # <<>> /\ Targeted(StoreOf(last.op)) = <<>>

\* the places of a call in the calls of the request being answered
Places(call) == {i \in 1..Len(last.resp.calls) : last.resp.calls[i] = call}

\* C14 as stated: DeleteEvent and DeleteHub call the asset host only once the
\* document is removed, once for each stored image URL in turn and never
\* twice, and answer with success whatever becomes of those calls.
C14_Original ==
    last.op \in DeleteWithAssets =>
        /\ last.resp.destroys # <<>> =>
              /\ Removed
              /\ \A i \in Places("DeleteOne"), j \in Places("DeleteFromCloudinary") : i < j
        /\ Removed =>
              /\ last.resp.status = 200
              /\ Len(last.resp.destroys) = Len(ImagesIn(last.pre))
              /\ \A i \in 1..Len(last.resp.destroys) :
                    last.resp.destroys[i].url = ImagesIn(last.pre)[i]

\* C15 as stated: the success answer of DeleteEvent and DeleteHub is written
\* without waiting for the asset deletes: no asset delete has returned when
\* the answer is written.
C15_Original ==
    (last.op \in DeleteWithAssets /\ last.resp.status = 200) =>
        \A i \in Places("JSON"), j \in Places("DeleteFromCloudinary") : i < j

\* the public id of the n-th upload: its folder and its name
PublicIDOfUpload(n) == "events/img" \o ToString(n)

\* C16 as stated: for a URL with the path
\* /<cloud>/image/upload/v<version>/<folder>/<name>.<ext> the destroy is made
\* with the public id <folder>/<name>.
C16_Original ==
    \A i \in 1..Len(last.resp.destroys), n \in 1..MaxAssets :
        last.resp.destroys[i].url = AssetURL(n) =>
            /\ last.resp.destroys[i].destroy
            /\ last.resp.destroys[i].public_id = PublicIDOfUpload(n)

\* the path of url is /<cloud>/image/upload/v<version>/<folder>/<name>.<ext>;
\* parts is that path split at its slashes
ShapedParts(parts) ==
    /\ Len(parts) = 7
    /\ parts[1] = "" /\ parts[2] # ""
    /\ parts[3] = "image" /\ parts[4] = "upload"
    /\ HasPrefix(parts[5], "v") /\ parts[6] # ""
    /\ Ext(parts[7]) # "" /\ Ext(parts[7]) # parts[7]

HasAssetShape(url) ==
    Parse(url).ok /\ ShapedParts(Split(Parse(url).path, "/"))

\* C17 as stated: for a URL that has not the path shape of the asset host
\* extractPublicID returns an error, and DeleteFromCloudinary makes no
\* destroy call.
C17_Original ==
    \A i \in 1..Len(last.resp.destroys) :
        ~HasAssetShape(last.resp.destroys[i].url) =>
            /\ ~last.resp.destroys[i].panic
            /\ last.resp.destroys[i].err = "could not extract public ID"
            /\ ~last.resp.destroys[i].destroy

\* the name a hub read must show for the author of the stored review r
ShownName(r, sentinel) ==
    IF r.user_id \in DOMAIN Users THEN Users[r.user_id] ELSE sentinel

\* shown, the reviews of an answer, are the stored reviews of hub id one for
\* one, each under the name of its author or under the sentinel
ReviewsShown(shown, id, sentinel) ==
    LET stored == ReviewsOf(id) IN
    /\ Len(shown) = Len(stored)
    /\ \A j \in 1..Len(stored) :
         /\ shown[j].id = stored[j]._id
         /\ shown[j].rating = stored[j].rating
         /\ shown[j].user_name = ShownName(stored[j], sentinel)

\* a stored review of hub id whose author has no user document
Orphaned(id) ==
    \E j \in 1..Len(ReviewsOf(id)) : ReviewsOf(id)[j].user_id \notin DOMAIN Users

\* C18: ListHubs and GetHub answer with success whether or not the authors
\* of the reviews are found: every stored review of a hub is in the answer,
\* under the author's name when the lookup finds it and under "Unknown"
\* (ListHubs) or "Unknown User" (GetHub) when it does not.
C18_AuthorLookup ==
    /\ (last.op = "ListHubs" /\ ReadAccepted) =>
          /\ last.resp.status = 200
          /\ Len(last.resp.body.val) = Len(ReadResult)
          /\ \A i \in 1..Len(ReadResult) :
                ReviewsShown(last.resp.body.val[i].reviews, ReadResult[i]._id, "Unknown")
    /\ (last.op = "GetHub" /\ ReadAccepted /\ ReadResult # <<>>) =>
          /\ last.resp.status \in {200, 304}
          /\ last.resp.status = 200 =>
                ReviewsShown(last.resp.body.val[1].reviews.val, ReadResult[1]._id,
                             "Unknown User")

\* a hub is read that has a review by an account without a user document
C18_Witness ==
    /\ last.op = "GetHub" /\ last.resp.status = 200
    /\ Orphaned(ReadResult[1]._id)
    /\ \E j \in 1..Len(last.resp.body.val[1].reviews.val) :
         last.resp.body.val[1].reviews.val[j].user_name = "Unknown User"

\* the favorites collection holds a record of the caller of the request
\* being answered for hub id
CallerFavors(id) ==
    \E i \in 1..Len(favorites) :
        /\ favorites[i].user_id = ObjectIDFromHex(last.caller).id
        /\ favorites[i].hub_id = id

Reapplied ==
    CASE last.op = "UpdateContribution" ->
           UpdateContributionHandler(last.id, last.form)
      [] last.op = "UpdateEvent" ->
           UpdateEventHandler(last.caller, last.role, last.id, last.form, last.nfiles, 0)
      [] last.op = "UpdateHub" ->
           UpdateHubHandler(last.caller, last.role, last.id, last.form, last.nfiles, 0)

\* the update document the update being answered stages at clock reading t
\* when it brings no file
StagedAt(t) ==
    CASE last.op = "UpdateContribution" -> StageContribution(last.form, t)
      [] last.op = "UpdateEvent" -> StageEvent(last.form, <<>>, t)
      [] last.op = "UpdateHub" -> StageHub(last.form, <<>>, t)

\* after is before in every field but updated_at, which is not earlier
SameContent(before, after) ==
    /\ Len(after) = Len(before)
    /\ \A i \in 1..Len(before) :
         /\ Without(after[i], {"updated_at"}) = Without(before[i], {"updated_at"})
         /\ after[i].updated_at >= before[i].updated_at

\* C20 as stated: an update that succeeded, applied once more, succeeds and
\* leaves every stored field but updated_at as the first application left
\* it, and updated_at not earlier.
C20_Original ==
    (last.op \in UpdateOps /\ last.resp.status = 200) =>
        /\ Reapplied.resp.status = 200
        /\ SameContent(StoreOf(last.op), Reapplied.coll)

\* C20 amended: an update without a new image file that succeeded, applied
\* once more at the same or a later clock reading, succeeds and leaves every
\* stored field but updated_at as the first application left it, and
\* updated_at not earlier.
C20_MergeIdempotence ==
    (last.op \in UpdateOps /\ last.resp.status = 200 /\ last.nfiles = 0) =>
        /\ Reapplied.resp.status = 200
        /\ SameContent(StoreOf(last.op), Reapplied.coll)
        /\ \A t \in now..MaxClock :
              SameContent(StoreOf(last.op),
                          UpdateOne(StoreOf(last.op), ObjectIDFromHex(last.id).id,
                                    StagedAt(t)))

\* an event has got a new title, a description and a list of images to keep
\* by an update, and a clock reading is left to apply it again at
C20_Witness ==
    /\ last.op = "UpdateEvent" /\ last.resp.status = 200 /\ last.nfiles = 0
    /\ last.form.title # "" /\ last.form.description # ""
    /\ Targeted(events) # Targeted(last.pre)
    /\ now < MaxClock

\* the collection the racing updates and deletes of the program work on
RacedStore == IF app = "tracker" THEN events ELSE hubs

\* the document worker record w names, as the store holds it now
StoredNow(w) == ById(RacedStore, ObjectIDFromHex(w.id).id)

\* w is an update whose UpdateOne matched its document
Wrote(w) == w.op \in ImageOps /\ w.pc \in {"refetch", "done"} /\ w.matched = 1

\* C21: the update flow has no version guard.  The UpdateOne of an update is
\* applied whatever was written to the document since the update fetched it:
\* the image list it staged is the stored one until a later write stages
\* another, and it answers success whenever the document is still there.  So
\* of two updates that fetched the same document and both answered success,
\* the images the first writer appended are lost.
C21_LostUpdate ==
    \A p \in Procs :
        (Wrote(inflight[p]) /\ StoredNow(inflight[p]) # <<>>) =>
            /\ ("images" \in DOMAIN inflight[p].update /\ ~inflight[p].imagesReplaced)
                   => StoredNow(inflight[p])[1].images = inflight[p].update.images
            /\ inflight[p].pc = "done" => inflight[p].resp.status = 200

\* two updates of one document, fetched in the same state of it, have both
\* answered success, and the image the first writer uploaded is not stored
C21_Witness ==
    \E p, q \in Procs :
        /\ p # q /\ Wrote(inflight[p]) /\ Wrote(inflight[q])
        /\ inflight[p].id = inflight[q].id
        /\ inflight[p].existing = inflight[q].existing
        /\ inflight[p].pc = "done" /\ inflight[q].pc = "done"
        /\ inflight[p].resp.status = 200 /\ inflight[q].resp.status = 200
        /\ inflight[p].imagesReplaced
        /\ StoredNow(inflight[p]) # <<>>
        /\ \E u \in Range(inflight[p].resp.uploads) :
               /\ u \in Range(inflight[p].update.images)
               /\ u \notin Range(StoredNow(inflight[p])[1].images)

\* C22 as stated: an update whose UpdateOne matched no document answers 404
\* (NotFound), never success and never a store failure
C22_Original ==
    \A p \in Procs :
        (/\ inflight[p].op \in UpdateOps /\ inflight[p].pc = "done"
         /\ inflight[p].matched = 0)
            => inflight[p].resp.status = 404

\* C23: in every reachable state every stored contribution has amount > 0:
\* CreateContribution refuses an amount <= 0 and UpdateContribution stages
\* the amount of its body only when it is positive
C23_PositiveAmount ==
    \A i \in 1..Len(contributions) :
        "amount" \in DOMAIN contributions[i] /\ contributions[i].amount > 0

\* an update whose body carries an amount that is not positive was applied
\* to a stored contribution
C23_Witness ==
    /\ last.op = "UpdateContribution" /\ last.resp.status = 200
    /\ last.form.amount <= 0
    /\ Targeted(contributions) # <<>>
    /\ Targeted(contributions)[1].status = last.form.status
    /\ Targeted(contributions)[1].amount = Targeted(last.pre)[1].amount

\* C24 as stated: in every reachable state, concurrent ToggleFavorite
\* requests of one user on one hub included, the favorites collection holds
\* at most one record for a user and a hub
C24_Original ==
    \A i, j \in 1..Len(favorites) :
        (favorites[i].user_id = favorites[j].user_id
         /\ favorites[i].hub_id = favorites[j].hub_id) => i = j

\* C25 as stated: the favorite flag ToggleFavorite answers is the favorited
\* state the request leaves in the store: a record of the caller for the hub
\* exists exactly when it answers favorite = true
C25_Original ==
    (last.op = "ToggleFavorite" /\ last.resp.status = 200) =>
        (last.resp.body.val[1].favorite
            <=> (FavoriteOf(ObjectIDFromHex(last.caller).id,
                            ObjectIDFromHex(last.id).id) # <<>>))

\* the reviews and the favorites before the request being answered
ReviewsBefore == IF last.op = "AddReview" THEN last.pre ELSE reviews

FavoritesBefore == IF last.op = "ToggleFavorite" THEN last.pre ELSE favorites

\* C26 as stated: a not-modified answer of GetHub is sound.  When GetHub
\* answers 304 to the fingerprint it gave a caller before an AddReview or a
\* ToggleFavorite, the body it would send now (hub, reviews, is_favorite) is
\* the body it sent with that fingerprint
C26_Original ==
    \A caller \in Callers, id \in IdParams :
        (/\ last.op \in {"AddReview", "ToggleFavorite"}
         /\ GetHubOn(ReviewsBefore, FavoritesBefore, caller, id, NoTag).status = 200
         /\ GetHubOn(reviews, favorites, caller, id,
                     GetHubOn(ReviewsBefore, FavoritesBefore, caller, id, NoTag).headers.etag
                    ).status = 304)
            => GetHubOn(reviews, favorites, caller, id, NoTag).body
                   = GetHubOn(ReviewsBefore, FavoritesBefore, caller, id, NoTag).body

\* C27: event reads are isolated per owner.  ListEvents sends only events
\* whose owner is the caller, and GetEvent sends an event, or answers
\* not-modified for it, only to its owner: for an event of another account
\* every caller, the administrator included, gets 404
C27_OwnerIsolation ==
    /\ (last.op = "ListEvents" /\ last.resp.body.kind = "array") =>
           \A i \in 1..Len(last.resp.body.val) :
               Hex(last.resp.body.val[i].user_id) = last.caller
    /\ (last.op = "GetEvent" /\ Targeted(events) # <<>>) =>
           IF Hex(Targeted(events)[1].user_id) = last.caller
           THEN last.resp.status \in {200, 304}
           ELSE last.resp.status \in {401, 404}
    /\ (last.op = "GetEvent" /\ last.resp.status = 200) =>
           Hex(last.resp.body.val[1].user_id) = last.caller

\* the administrator asked for a stored event of another account, after an
\* update of it, and got 404
C27_Witness ==
    /\ last.op = "GetEvent" /\ Targeted(events) # <<>>
    /\ last.caller = Hex(Cardinality(UserOids))
    /\ Targeted(events)[1].user_id # Cardinality(UserOids)
    /\ Targeted(events)[1].title = "b"
    /\ last.resp.status = 404

\* the URLs a delete called the asset host for, in the order of the calls
DestroyedURLs(w) == [i \in 1..Len(w.resp.destroys) |-> w.resp.destroys[i].url]

\* C28 as stated: the image URLs a DeleteEvent or DeleteHub issues asset
\* deletes for are the image URLs the document held when its DeleteOne took
\* it away, also with an update of the image list between the FindOne and
\* the DeleteOne of the delete
C28_Original ==
    \A p \in Procs :
        (/\ inflight[p].op \in DeleteWithAssets /\ inflight[p].pc = "done"
         /\ inflight[p].removed # <<>>)
            => Range(DestroyedURLs(inflight[p])) = Range(inflight[p].removed[1].images)

\* C29 as stated: when a contribution is inserted the event it references
\* is in the store, also with a DeleteEvent of that event between the
\* FindOne and the InsertOne of CreateContribution
C29_Original ==
    \A p \in Procs :
        (/\ inflight[p].op = "CreateContribution" /\ inflight[p].pc = "done"
         /\ inflight[p].resp.status = 201)
            => inflight[p].parent

\* C30: UpdateEvent and UpdateHub upload only after the identity, existence
\* and permission checks and after binding and deadline validation: a request
\* answered 401, 403, 404 or 400 (invalid input, no fields to update) has
\* made no call to the asset host
C30_NoUploadBeforeChecks ==
    (last.op \in ImageOps /\ last.resp.status \in {400, 401, 403, 404}) =>
        last.resp.uploads = <<>>

\* an update that came with a new file was refused for its deadline or its
\* binding, after the document was fetched, and uploaded nothing
C30_Witness ==
    /\ last.op \in ImageOps /\ last.nfiles > 0
    /\ last.resp.status = 400 /\ last.resp.calls = <<"FindOne">>
    /\ last.resp.uploads = <<>>
    /\ nextAsset < MaxAssets

====
